---------------------------- MODULE Spec2Model ----------------------------
(***************************************************************************)
(* The SEC-only worker (sec_only.main) and its supervising controller      *)
(* (run_until_boundary.main) as one state machine.                         *)
(*                                                                         *)
(* Time is counted in minutes.  A datetime is a record                     *)
(*   [wall |-> minutes on the wall clock, aware |-> has tzinfo,            *)
(*    off |-> utc offset in minutes (0 when naive)]                        *)
(* and the instant of an aware datetime is wall - off.                     *)
(*                                                                         *)
(* The feed is a sequence of pages of count_per_page entries; a page is    *)
(* given by the entries that matter, newest first (the other entries of    *)
(* the page are filings of untracked forms dated between these: main skips *)
(* them at its form test, before any request, counter or output).          *)
(***************************************************************************)
EXTENDS Integers, Sequences, FiniteSets, TLC

\* ------------------------------------------------------------ bounds
\* Model values of the settings.json keys read at sec_only.py:67-74 and of
\* the controller's environment (run_until_boundary.py:13-16).
max_pages == 4
PageBudget == 3
max_empty_pages == 2
retry_503 == 2
MAX_ATTEMPTS == 2
\* Longest feed, in pages; fetch failures and kills injected per behaviour.
MaxBlocks == 3
MaxFaults == 2
MaxKills == 1
\* Largest weight of a scoring configuration; days of clock the window
\* resolvers are tried on.
MaxWeight == 2
HorizonDays == 8
\* Times a normalizer is applied to its own result.
MaxApply == 2

\* ------------------------------------------------------------ constants
count == 100
\* RUNNER_MAX_WALL_SECS, seconds
MAX_WALL == 6600
scan_extend_days == 3
MinutesPerDay == 1440
\* utc offset of the configured timezone (America/New_York, standard time)
EtOff == -300
cutoff_hour == 9
cutoff_minute == 30

None == <<>>
Some(v) == <<v>>

Min(a, b) == IF a <= b THEN a ELSE b
Max(a, b) == IF a >= b THEN a ELSE b

\* ------------------------------------------------------------ datetimes
Aware(wall, off) == [wall |-> wall, aware |-> TRUE, off |-> off]
Naive(wall) == [wall |-> wall, aware |-> FALSE, off |-> 0]
Et(wall) == Aware(wall, EtOff)

\* The instant (utc minutes) of an aware datetime.
Instant(dt) == dt.wall - dt.off

\* dt.astimezone(ZoneInfo(tz)): the same instant on the ET wall clock; a naive
\* datetime is presumed to be system local time (offset sysoff).
astimezone(dt, sys) ==
    LET inst == IF dt.aware THEN Instant(dt) ELSE dt.wall - sys
    IN  Aware(inst + EtOff, EtOff)

\* "a < b" on two datetimes: defined only when both are aware or both naive.
Comparable(a, b) == a.aware = b.aware
DtLess(a, b) == IF a.aware THEN Instant(a) < Instant(b) ELSE a.wall < b.wall

\* The window of this run: previous business day 09:30 ET to latest 09:30 ET.
start_et == Et(0)
end_et == Et(MinutesPerDay)
\* Variant of extended_stop_et with no margin.
extended_stop_none == start_et

extended_stop_et == Et(start_et.wall - scan_extend_days * MinutesPerDay)

\* Variant of within_window that reads a naive timestamp as Eastern time.
within_window_naive_local(dt, s, e) ==
    LET dt_et == astimezone(IF dt.aware THEN dt ELSE Aware(dt.wall, EtOff), 0)
    IN  Instant(s) <= Instant(dt_et) /\ Instant(dt_et) <= Instant(e)

within_window(dt, s, e) ==
    LET dt_et == astimezone(IF dt.aware THEN dt ELSE Aware(dt.wall, 0), 0)
    IN  Instant(s) <= Instant(dt_et) /\ Instant(dt_et) <= Instant(e)

\* ------------------------------------------------------------ entries
allowed_forms ==
    {"8-K", "8-K/A", "6-K", "6-K/A", "10-Q", "10-Q/A", "10-K", "10-K/A",
     "SC 13D", "SC 13D/A", "SC 13G", "SC 13G/A", "Form 3", "3/A", "Form 4", "4/A"}

\* _match_form on the category terms of the sample entries: the first pattern of
\* _PATTERNS that matches the upper-cased term, "FORM 3"/"3" and "FORM 4"/"4"
\* renamed, no match giving None.
_match_form(s) ==
    CASE s = "8-K" -> Some("8-K")
      [] s = "10-Q" -> Some("10-Q")
      [] s = "10-K" -> Some("10-K")
      [] s = "4" -> Some("Form 4")
      [] s = "3" -> Some("Form 3")
      [] s = "4/A" -> Some("4/A")
      [] s = "FORM 3/A" -> Some("FORM 3/A")
      [] OTHER -> None

\* entry_form: the first tag whose term matches; the sample entries carry one tag
\* and no form in title, summary, content or link, so no match ends in "".
entry_form(e) ==
    LET f == _match_form(e.term)
    IN  IF f # None THEN f[1] ELSE ""

\* parse_entry_time: dateutil's parse of entry["updated"].
parse_entry_time(e) == e.updated

\* A feed entry: link, updated, the category term, the cik in the link, what
\* the submissions endpoint answers for that cik (sic), and the words of the
\* title/summary text, as written, that the keyword lists look for.
Entry(link, updated, term, sic, words) ==
    [link |-> link, updated |-> updated, term |-> term, cik |-> link,
     sic |-> sic, words |-> words]

EntA == Entry("a", Et(1470), "8-K", Some(7372), {})
EntB == Entry("b", Et(1440), "8-K", Some(7372), {"acquisition"})
\* Another filing of the company of EntB.
EntH == [Entry("h", Et(1400), "8-K", Some(7372), {}) EXCEPT !.cik = "b"]
EntC == Entry("c", Et(700), "4", Some(6022), {})
EntK == Entry("k", Et(650), "10-K", Some(7372), {"Casino"})
EntS == Entry("s", Et(640), "8-K", Some(7993), {"Casino"})
EntT == Entry("t", Et(620), "8-K", Some(2100), {})
EntD == Entry("d", Et(600), "S-1", None, {})
EntE == Entry("e", Et(0), "10-Q", Some(7372), {"offering"})
EntF == Entry("f", Et(-10), "8-K", Some(7372), {})
EntG == Entry("g", Et(-4330), "8-K", Some(7372), {})
EntN == Entry("n", Naive(1500), "8-K", Some(7372), {})
EntO == Entry("o", Naive(100), "8-K", Some(7372), {})

\* The sample pages, newest first.  PageB lists one entry twice; PageM mixes an
\* aware and a naive timestamp.
PageA == <<EntA>>
PageB == <<EntB, EntB, EntH>>
PageC == <<EntC, EntK, EntS, EntT, EntD>>
PageE == <<EntE, EntF>>
PageM == <<EntE, EntO>>
PageN == <<EntN, EntO>>
PageG == <<EntG>>
PagePool == <<PageA, PageB, PageC, PageE, PageM, PageN, PageG>>

\* Instant of a sample timestamp with a naive one read as utc (feed order only).
FeedInstant(dt) == dt.wall - dt.off
PageNewest(pg) == FeedInstant(pg[1].updated)
PageOldest(pg) == FeedInstant(pg[Len(pg)].updated)

HasNaive(fd) == \E i \in 1..Len(fd) : \E j \in 1..Len(fd[i]) : ~fd[i][j].updated.aware

\* Feeds: up to MaxBlocks sample pages, newest first across pages.
Feeds ==
    {fd \in UNION {[1..n -> {PagePool[i] : i \in 1..Len(PagePool)}] : n \in 0..MaxBlocks} :
        \A i \in 1..(Len(fd) - 1) : PageOldest(fd[i]) > PageNewest(fd[i + 1])}

\* The page the feed returns for start=idx, count=100: the entries from offset idx.
FeedPage(fd, idx) ==
    IF idx % count = 0 /\ idx \div count < Len(fd) THEN fd[(idx \div count) + 1] ELSE <<>>

\* len(entries) of a parsed page.
returned_entries(page) == IF page = <<>> THEN 0 ELSE count

\* ------------------------------------------------------------ ban filter, score
\* Sample config/banned_sic_prefixes.json, banned_sic_exact.json,
\* banned_keywords.json and scoring.json.
ban_pref == {<<6, 0>>, <<6, 1>>}
ban_exact == {7993}
ban_kw == {"casino", "Tobacco"}
scoring ==
    [form_weights |-> [f \in {"8-K", "10-Q", "10-K", "FORM 4"} |->
                          CASE f = "8-K" -> 3 [] f = "FORM 4" -> 2 [] OTHER -> 1],
     item_boosts_8k |-> [c \in {"2.02"} |-> 2],
     positive_keywords |-> {"acquisition"}, pos_keyword_boost |-> 2,
     negative_keywords |-> {"bankruptcy"}, neg_keyword_penalty |-> 2,
     dilution_flags |-> {"offering"}, dilution_penalty |-> 3,
     form4_pos_boost_terms |-> {"purchase"}, form4_pos_boost |-> 1]

RECURSIVE Digits(_)
\* str(sic) as its decimal digits.
Digits(n) == IF n < 10 THEN <<n>> ELSE Append(Digits(n \div 10), n % 10)

StartsWith(s, pre) == Len(pre) <= Len(s) /\ SubSeq(s, 1, Len(pre)) = pre

banned_by_sic(sic, prefixes, exact) ==
    IF sic = None THEN FALSE
    ELSE \/ sic[1] \in exact
         \/ \E pre \in prefixes : StartsWith(Digits(sic[1]), pre)

\* str.lower() on the sample words.
Lower(s) ==
    CASE s = "Casino" -> "casino"
      [] s = "Tobacco" -> "tobacco"
      [] s = "TOBACCO" -> "tobacco"
      [] s = "Gaming" -> "gaming"
      [] OTHER -> s
LowerAll(words) == {Lower(x) : x \in words}

\* sicDescription of the submissions answer, by the words it holds.
sicDescription(sic) == IF sic = Some(2100) THEN {"Tobacco"} ELSE {}

\* Variant of banned_by_keywords that holds when exactly one term is found.
banned_by_keywords_single(words, kw) ==
    Cardinality({term \in kw : term # "" /\ Lower(term) \in LowerAll(words)}) = 1

\* Variant of banned_by_keywords that compares the text as written.
banned_by_keywords_cased(words, kw) ==
    \E term \in kw : term # "" /\ Lower(term) \in words

\* A non-empty term with term.lower() in text.lower(), the text given by the
\* listed words it holds.
banned_by_keywords(words, kw) ==
    \E term \in kw : term # "" /\ Lower(term) \in LowerAll(words)

\* rec["form"].upper() and form.replace("/A", "") on the forms entry_form returns.
Upper(form) ==
    CASE form = "Form 3" -> "FORM 3" [] form = "Form 4" -> "FORM 4" [] OTHER -> form
StripA(form) ==
    CASE form = "8-K/A" -> "8-K" [] form = "10-Q/A" -> "10-Q" [] form = "10-K/A" -> "10-K"
      [] form = "4/A" -> "4" [] form = "3/A" -> "3" [] form = "FORM 3/A" -> "FORM 3"
      [] OTHER -> form

Weight(tbl, form) ==
    IF form \in DOMAIN tbl THEN tbl[form]
    ELSE IF StripA(form) \in DOMAIN tbl THEN tbl[StripA(form)] ELSE 0

\* dict.get(k, 0)
Get(tbl, k) == IF k \in DOMAIN tbl THEN tbl[k] ELSE 0

RECURSIVE SumGet(_, _)
\* The sum of tbl.get(k, 0) over the keys ks.
SumGet(tbl, ks) ==
    IF ks = {} THEN 0
    ELSE LET k == CHOOSE x \in ks : TRUE IN Get(tbl, k) + SumGet(tbl, ks \ {k})

\* item_codes_from_text: the words of the shape d.dd (a sample text names a code
\* once).
item_codes_from_text(text) ==
    text \cap {"1.01", "2.01", "2.02", "3.01", "3.02", "5.03", "8.01"}

\* score_record: form weight, 8-K item boosts, keyword boost and penalties,
\* form-4 boost, floored at zero.
score_record(rec, sc) ==
    LET form == Upper(rec.form)
        s0 == Weight(sc.form_weights, form)
        text == LowerAll(rec.words)
        si == IF form \in {"8-K", "8-K/A"}
              THEN s0 + SumGet(sc.item_boosts_8k, item_codes_from_text(text)) ELSE s0
        s1 == IF text \cap sc.positive_keywords # {} THEN si + sc.pos_keyword_boost ELSE si
        s2 == IF text \cap sc.negative_keywords # {} THEN s1 - sc.neg_keyword_penalty ELSE s1
        s3 == IF text \cap sc.dilution_flags # {} THEN s2 - sc.dilution_penalty ELSE s2
        s4 == IF form \in {"FORM 4", "4", "4/A"} /\ text \cap sc.form4_pos_boost_terms # {}
              THEN s3 + sc.form4_pos_boost ELSE s3
    IN  Max(s4, 0)

\* make_key: the sha256 of link|cik|form|filing_datetime, taken as injective.
make_key(rec) == <<rec.link, rec.cik, rec.form, rec.filing_datetime>>

\* ------------------------------------------------------------ files
\* A json file on disk: absent, unreadable, or the object it holds.
Absent == [kind |-> "absent"]
Garbage == [kind |-> "garbage"]

\* safe_load: the parsed object, or {} when the file is missing or unreadable.
safe_load(file) == IF file.kind = "json" THEN file ELSE [kind |-> "empty"]

\* The checkpoint object main writes.
Checkpoint(status, ws, we, idx, last) ==
    [kind |-> "json", status |-> status, window_start_et |-> ws, window_end_et |-> we,
     next_start_idx |-> idx, last_oldest_et_scanned |-> last]

\* ------------------------------------------------------------ sec_only.main
\* The stats object (atom_http_codes, pages_debug, errors and the fields that
\* only repeat the configuration are left out).
Stats0 ==
    [kind |-> "json",
     window_start_et |-> start_et, window_end_et |-> end_et,
     pages_fetched |-> 0, entries_seen |-> 0, entries_kept |-> 0,
     banned_sic |-> 0, banned_kw |-> 0,
     hit_boundary |-> FALSE, hit_extended_boundary |-> FALSE, hit_page_limit |-> FALSE,
     atom_fetch_errors |-> 0, last_oldest_et_scanned |-> None,
     resumed |-> FALSE, prev_start_idx |-> 0]

\* Variant of ResumeOk that does not compare the window end.
ResumeIgnoresWindowEnd(ckpt, stats) ==
    /\ ckpt.kind = "json"
    /\ ckpt.window_start_et = stats.window_start_et
    /\ ckpt.status = "incomplete"

\* The test of line 108: the checkpoint is honored.
ResumeOk(ckpt, stats) ==
    /\ ckpt.kind = "json"
    /\ ckpt.window_start_et = stats.window_start_et
    /\ ckpt.window_end_et = stats.window_end_et
    /\ ckpt.status = "incomplete"

\* main up to the page loop: the locals after lines 81-154.
Startup(ckpt_on_disk, seen_on_disk, budget) ==
    LET ckpt == safe_load(ckpt_on_disk)
        ok == ResumeOk(ckpt, Stats0)
        idx == IF ok THEN ckpt.next_start_idx ELSE 0
    IN  [page_budget |-> budget,
         p |-> 0, start_idx |-> idx, this_pages |-> 0, empty_streak |-> 0,
         crossed_end |-> FALSE, raw_rows |-> <<>>, kept_rows |-> <<>>,
         seen |-> seen_on_disk, sub_reqs |-> <<>>,
         stats |-> [Stats0 EXCEPT !.resumed = ok, !.prev_start_idx = idx]]

RECURSIVE BoundsFrom(_, _, _)
\* bounds(entries): the newest and oldest parsed time; comparing a naive with an
\* aware datetime raises TypeError.
BoundsFrom(entries, i, acc) ==
    IF i > Len(entries) \/ acc.raised THEN acc
    ELSE LET t == parse_entry_time(entries[i])
         IN  IF acc.oldest # None /\ ~Comparable(t, acc.oldest[1])
             THEN [acc EXCEPT !.raised = TRUE]
             ELSE BoundsFrom(entries, i + 1,
                    [raised |-> FALSE,
                     oldest |-> IF acc.oldest = None \/ DtLess(t, acc.oldest[1])
                                THEN Some(t) ELSE acc.oldest,
                     newest |-> IF acc.newest = None \/ DtLess(acc.newest[1], t)
                                THEN Some(t) ELSE acc.newest])
bounds(entries) == BoundsFrom(entries, 1, [raised |-> FALSE, oldest |-> None, newest |-> None])

\* to_et(dt): the ET wall clock of dt, None for None.
to_et(dt, sys) == IF dt = None THEN None ELSE Some(astimezone(dt[1], sys).wall)

\* Variant of jump with one stride for every gap.
jump_flat(gap_min) == 200

\* The stride of a seek jump for a gap of gap_min minutes past the window end.
jump(gap_min) ==
    IF gap_min > 240 THEN 2000
    ELSE IF gap_min > 120 THEN 1000
    ELSE IF gap_min > 60 THEN 500 ELSE 200

\* rec as built at lines 233-234 (score added at line 244 for a kept record; the
\* appended raw row is the same object, so it shows the score too).
Rec(e, t, form) ==
    [filing_datetime |-> t, form |-> form, cik |-> e.cik, sic |-> e.sic,
     industry |-> sicDescription(e.sic),
     words |-> e.words, link |-> e.link, score |-> None]

\* Variant of SeenTest that never finds the key.
SeenNever(key, seen) == FALSE

\* Line 236: the key is in the registry.
SeenTest(key, seen) == key \in seen

\* The blob of line 239: title, summary, industry and company, by its words.
Blob(rec) == rec.words \cup rec.industry

\* One entry of the loop at lines 215-245; sub_reqs lists the ciks whose
\* submissions were requested (lines 225-230: every entry of the window with a
\* tracked form makes one request).
ProcessEntry(e, acc) ==
    LET t == parse_entry_time(e)
        form == entry_form(e)
        rec == Rec(e, t, form)
        key == make_key(rec)
        a1 == [acc EXCEPT !.sub_reqs = Append(@, e.cik)]
        bsic == banned_by_sic(rec.sic, ban_pref, ban_exact)
        bkw == banned_by_keywords(Blob(rec), ban_kw)
        scored == [rec EXCEPT !.score = Some(score_record(rec, scoring))]
    IN  IF ~within_window(t, start_et, end_et) THEN acc
        ELSE IF form \notin allowed_forms THEN acc
        ELSE IF SeenTest(key, a1.seen) THEN a1
        ELSE IF bsic \/ bkw
             THEN [a1 EXCEPT !.seen = @ \cup {key},
                             !.raw_rows = Append(@, rec),
                             !.stats.banned_sic = IF bsic THEN @ + 1 ELSE @,
                             !.stats.banned_kw = IF bsic THEN @ ELSE @ + 1]
             ELSE [a1 EXCEPT !.seen = @ \cup {key},
                             !.raw_rows = Append(@, scored),
                             !.kept_rows = Append(@, scored)]

RECURSIVE ProcessFrom(_, _, _)
ProcessFrom(entries, i, acc) ==
    IF i > Len(entries) THEN acc
    ELSE ProcessFrom(entries, i + 1, ProcessEntry(entries[i], acc))

\* Variant of FailedPageNextIdx that moves on to the next page.
FailedPageSkipped(idx) == idx + count

\* The offset requested after a failed fetch: start_idx is left as it is
\* (lines 165-172).
FailedPageNextIdx(idx) == idx

\* Variant of CrossedEnd that holds for every page.
CrossedAlways(oldest_et) == TRUE

\* The else-branch of line 202: the page's oldest entry is not newer than the
\* window end.
CrossedEnd(oldest_et) == ~(Instant(oldest_et) > Instant(end_et))

\* Variant of BudgetHit without a per-attempt budget.
BudgetNeverHit(wk) == FALSE

\* Line 157: the attempt's page budget is used up.
BudgetHit(wk) == wk.this_pages >= wk.page_budget

\* Variant of LoopCkpt that names offset 0.
LoopCkptRestart(wk) ==
    Checkpoint("incomplete", wk.stats.window_start_et, wk.stats.window_end_et,
               0, wk.stats.last_oldest_et_scanned)

\* The checkpoint written inside the loop.
LoopCkpt(wk) ==
    Checkpoint("incomplete", wk.stats.window_start_et, wk.stats.window_end_et,
               wk.start_idx, wk.stats.last_oldest_et_scanned)

Written(wk, ctl) == [w |-> wk, ckpt |-> Some(LoopCkpt(wk)), ctl |-> ctl]

\* Lines 165-172 and 178-184: count the page in the streak, checkpoint, and stop
\* the attempt when the streak is long enough.
StreakStep(wk) ==
    LET w2 == [wk EXCEPT !.empty_streak = @ + 1]
    IN  Written(w2, IF w2.empty_streak >= max_empty_pages THEN "break" ELSE "continue")

\* Lines 186-261: a page with entries.
EntriesStep(wk, entries, sys, seek) ==
    LET n == returned_entries(entries)
        b == bounds(entries)
        w1 == [wk EXCEPT !.stats.last_oldest_et_scanned = to_et(b.oldest, sys)]
        seeking == ~w1.crossed_end /\ seek /\ b.oldest # None
        oldest_et == astimezone(b.oldest[1], sys)
        jumped == [w1 EXCEPT !.start_idx = @ + jump((Instant(oldest_et) - Instant(end_et)))]
        w2 == IF seeking
              THEN [w1 EXCEPT !.crossed_end = TRUE, !.stats.hit_boundary = TRUE]
              ELSE w1
        w3 == ProcessFrom(entries, 1, w2)
    IN  IF b.raised THEN [w |-> wk, ckpt |-> None, ctl |-> "raise"]
        ELSE IF seeking /\ ~CrossedEnd(oldest_et) THEN Written(jumped, "continue")
        ELSE IF b.oldest # None /\ Instant(oldest_et) < Instant(extended_stop_et)
             THEN [w |-> [w3 EXCEPT !.stats.hit_extended_boundary = TRUE],
                   ckpt |-> None, ctl |-> "break"]
             ELSE Written([w3 EXCEPT !.start_idx = @ + n], "continue")

\* One pass of the loop body, lines 160-261, on what fetch returned: None, or
\* the page text.  The result: the locals, the checkpoint written (if any) and
\* how the pass ends (continue, break, raise).
PageIter(wk, text, sys, seek) ==
    LET w1 == [wk EXCEPT !.stats.pages_fetched = @ + 1, !.this_pages = @ + 1]
    IN  IF text = None
        THEN StreakStep([w1 EXCEPT !.stats.atom_fetch_errors = @ + 1,
                                   !.start_idx = FailedPageNextIdx(@)])
        ELSE IF returned_entries(text[1]) = 0
             THEN StreakStep([w1 EXCEPT !.empty_streak = 0])
             ELSE EntriesStep([w1 EXCEPT !.empty_streak = 0], text[1], sys, seek)

\* fetch(url): up to retry_503 tries; ok_at is the first try answering 200 with
\* a body (0: none does).
fetch(fd, idx, ok_at) == IF ok_at = 0 THEN None ELSE Some(FeedPage(fd, idx))

\* kept_rows.sort(key=(score, filing_datetime), reverse=True): stable, the
\* greater key first.
KeyGreater(a, b) ==
    \/ a.score[1] > b.score[1]
    \/ a.score[1] = b.score[1] /\ a.filing_datetime.wall > b.filing_datetime.wall

RECURSIVE InsertSorted(_, _)
InsertSorted(rows, r) ==
    IF rows = <<>> THEN <<r>>
    ELSE IF KeyGreater(r, rows[Len(rows)])
         THEN Append(InsertSorted(SubSeq(rows, 1, Len(rows) - 1), r), rows[Len(rows)])
         ELSE Append(rows, r)

RECURSIVE SortRows(_)
SortRows(rows) ==
    IF rows = <<>> THEN <<>>
    ELSE InsertSorted(SortRows(SubSeq(rows, 1, Len(rows) - 1)), rows[Len(rows)])

\* Variant of Finished that reports the kept rows as the entries seen.
FinishedKeptAsSeen(wk) ==
    [wk EXCEPT !.kept_rows = SortRows(@),
               !.stats.entries_seen = Len(wk.kept_rows),
               !.stats.entries_kept = Len(wk.kept_rows)]

\* Lines 263-265: the locals as the outputs are written.
Finished(wk) ==
    [wk EXCEPT !.kept_rows = SortRows(@),
               !.stats.entries_seen = Len(wk.raw_rows),
               !.stats.entries_kept = Len(wk.kept_rows)]

Rows(rows) == [kind |-> "json", rows |-> rows]

\* Lines 273-278: the frame of the kept rows (an empty frame with the columns
\* when there is none), reindexed to cols and written with its header row; a
\* data row is given by its link.
cols ==
    <<"filing_datetime", "form", "company", "ticker", "cik", "industry", "sic",
      "title", "score", "link">>
to_csv(kept_rows) ==
    [kind |-> "csv", header |-> cols,
     rows |-> [i \in 1..Len(kept_rows) |-> kept_rows[i].link]]

\* ------------------------------------------------------------ controller
\* read_stats: the stats file's object, {} when missing or unreadable.
read_stats(file) == safe_load(file)

\* Variant of ok that tests entries_kept.
OkKept(stats) ==
    stats.kind = "json" /\ stats.hit_boundary /\ stats.entries_kept > 0

\* ok(stats), run_until_boundary.py:25-28.
ok(stats) ==
    stats.kind = "json" /\ stats.hit_boundary /\ stats.entries_seen > 0

\* ------------------------------------------------------------ state
VARIABLES
    feed,        \* the upstream feed (fixed during the behaviour)
    sysoff,      \* utc offset of the machine's local time
    use_seek,    \* settings.json "seek_mode"
    page_budget, \* settings.json "attempt_page_budget"
    ckpt_file,   \* outputs/sec_checkpoint.json
    seen_file,   \* outputs/sec_seen_keys.json
    stats_file,  \* outputs/sec_debug_stats.json
    raw_file,    \* outputs/sec_filings_raw.json
    snap_file,   \* outputs/sec_filings_snapshot.json
    csv_file,    \* outputs/sec_filings_snapshot.csv
    wpc,         \* where the worker process is: none, start, loop, write, final, exited, dead
    w,           \* the worker's locals
    reqs,        \* the page requests of this attempt: [idx, res]
    ended,       \* how this attempt's page loop ended
    hist,        \* how each finished attempt ended
    faults,      \* fetch failures so far
    kills,       \* kills so far
    cpc,         \* where the controller is: top, wait, exit
    attempt,     \* the controller's loop variable
    elapsed,     \* now() - t0, up to MAX_WALL
    exit_code,   \* the controller's exit code, once it has exited
    \* the inputs and results of the functions taken on their own:
    banned_keywords, \* the banned-keyword configuration
    ban_kept,        \* the sample records each ban filter keeps under it
    score_in,        \* a record and a weight configuration
    score_out,       \* the scores the three scorers give it
    now_utc,         \* the current instant
    weekend_guard,   \* compute_windows' weekend_guard
    windows,         \* the windows resolved for now_utc
    form_raw,        \* a raw form string
    form_norm,       \* normalize_form applied to it once, twice, ...
    v23_in,          \* what a run of grandmaster_sec_v23.main meets
    v23,             \* that run: where it is, its stats, the files in data/
    coll_in,         \* the pages a collector is served and its settings
    coll_out         \* what _time_window_collect returned

env == <<feed, sysoff, use_seek, page_budget>>
disk == <<ckpt_file, seen_file, stats_file, raw_file, snap_file, csv_file>>
ctl == <<cpc, attempt, elapsed, exit_code>>
run == <<env, disk, wpc, w, reqs, ended, hist, faults, kills, ctl>>

banv == <<banned_keywords, ban_kept>>
scorev == <<score_in, score_out>>
clockv == <<now_utc, weekend_guard, windows>>
formv == <<form_raw, form_norm>>
pipev == <<v23_in, v23>>
collv == <<coll_in, coll_out>>
lab == <<banv, scorev, clockv, formv, pipev, collv>>

vars == <<run, lab>>

NoLocals == [p |-> 0]

\* The settings tried: seek mode on and off with a page budget below max_pages
\* (as in the defaults), and a page budget above max_pages.
Settings == {<<TRUE, PageBudget>>, <<FALSE, PageBudget>>, <<TRUE, max_pages + 1>>}

\* Checkpoints an earlier day's run (or another tool) may have left behind.
StaleCkpts ==
    {Checkpoint("incomplete", Et(ws), Et(we), 100, None) :
        ws \in {start_et.wall, start_et.wall - MinutesPerDay},
        we \in {end_et.wall, end_et.wall - MinutesPerDay}}
    \ {Checkpoint("incomplete", start_et, end_et, 100, None)}

\* The functions taken on their own are not in use.
BanIdle == banned_keywords = {} /\ ban_kept = <<>>
ScoreIdle == score_in = None /\ score_out = None
ClockIdle == now_utc = None /\ weekend_guard = FALSE /\ windows = None
FormIdle == form_raw = <<>> /\ form_norm = <<>>
PipeIdle == v23_in = None /\ v23 = None
CollIdle == coll_in = None /\ coll_out = None

Init ==
    /\ BanIdle /\ ScoreIdle /\ ClockIdle /\ FormIdle /\ PipeIdle /\ CollIdle
    /\ feed \in Feeds
    /\ sysoff \in (IF HasNaive(feed) THEN {0, EtOff} ELSE {0})
    /\ \E st \in Settings : use_seek = st[1] /\ page_budget = st[2]
    /\ ckpt_file \in {Absent, Garbage} \cup StaleCkpts
    /\ seen_file = {}
    /\ stats_file = Absent
    /\ raw_file = Absent
    /\ snap_file = Absent
    /\ csv_file = Absent
    /\ wpc = "none"
    /\ w = NoLocals
    /\ reqs = <<>>
    /\ ended = ""
    /\ hist = <<>>
    /\ faults = 0
    /\ kills = 0
    /\ cpc = "top"
    /\ attempt = 1
    /\ elapsed = 0
    /\ exit_code = None

\* ------------------------------------------------------------ worker actions
\* Lines 47-154: configuration, window, checkpoint and seen-keys are read.
WorkerStartup ==
    /\ wpc = "start"
    /\ w' = Startup(ckpt_file, seen_file, page_budget)
    /\ reqs' = <<>>
    /\ ended' = ""
    /\ wpc' = "loop"
    /\ UNCHANGED <<lab, env, disk, hist, faults, kills, ctl>>

EndAttempt(how) == hist' = Append(hist, how)

\* Lines 156-159: the loop ends without a request, by range(max_pages) running
\* out or by the page budget.
LoopExit ==
    /\ wpc = "loop"
    /\ \/ w.p >= max_pages
       \/ BudgetHit(w)
    /\ wpc' = "write"
    /\ ended' = IF w.p >= max_pages THEN "max_pages" ELSE "budget"
    /\ UNCHANGED <<lab, env, disk, w, reqs, hist, faults, kills, ctl>>

Res(text) == IF text = None THEN "fail" ELSE IF text[1] = <<>> THEN "empty" ELSE "page"

\* Lines 160-261: one page is requested and handled.
PageRequest ==
    /\ wpc = "loop"
    /\ w.p < max_pages
    /\ ~BudgetHit(w)
    /\ \E ok_at \in 0..retry_503 :
         LET text == fetch(feed, w.start_idx, ok_at)
             r == PageIter(w, text, sysoff, use_seek)
         IN  /\ ok_at = 0 => faults < MaxFaults
             /\ faults' = IF ok_at = 0 THEN faults + 1 ELSE faults
             /\ reqs' = Append(reqs, [idx |-> w.start_idx, res |-> Res(text)])
             /\ ckpt_file' = IF r.ckpt = None THEN ckpt_file ELSE r.ckpt[1]
             /\ IF r.ctl = "raise"
                THEN /\ wpc' = "dead"
                     /\ w' = NoLocals
                     /\ ended' = "raise"
                     /\ EndAttempt("raise")
                ELSE /\ wpc' = IF r.ctl = "break" THEN "write" ELSE "loop"
                     /\ w' = [r.w EXCEPT !.p = @ + 1]
                     /\ ended' = IF r.ctl # "break" THEN ""
                                 ELSE IF r.w.stats.hit_extended_boundary THEN "extended"
                                 ELSE "streak"
                     /\ UNCHANGED hist
    /\ UNCHANGED <<lab, env, seen_file, stats_file, raw_file, snap_file, csv_file, kills, ctl>>

\* Lines 263-278: raw, stats, snapshot and csv are written.
WriteOutputs ==
    /\ wpc = "write"
    /\ w' = Finished(w)
    /\ raw_file' = Rows(w'.raw_rows)
    /\ stats_file' = w'.stats
    /\ snap_file' = Rows(w'.kept_rows)
    /\ csv_file' = to_csv(w'.kept_rows)
    /\ wpc' = "final"
    /\ UNCHANGED <<lab, env, ckpt_file, seen_file, reqs, ended, hist, faults, kills, ctl>>

\* Lines 282-289: the seen registry is saved and the checkpoint finalized;
\* the process exits.
Finalize ==
    /\ wpc = "final"
    /\ seen_file' = w.seen
    /\ ckpt_file' = Checkpoint("complete", w.stats.window_start_et, w.stats.window_end_et,
                               0, w.stats.last_oldest_et_scanned)
    /\ wpc' = "exited"
    /\ EndAttempt("exit")
    /\ UNCHANGED <<lab, env, stats_file, raw_file, snap_file, csv_file, w, reqs, ended, faults, kills, ctl>>

\* The process is killed from outside; what it held in memory is gone.
Kill ==
    /\ wpc \in {"start", "loop", "write", "final"}
    /\ kills < MaxKills
    /\ kills' = kills + 1
    /\ wpc' = "dead"
    /\ w' = NoLocals
    /\ EndAttempt("kill")
    /\ UNCHANGED <<lab, env, disk, reqs, ended, faults, ctl>>

\* ------------------------------------------------------------ controller actions
\* run_until_boundary.py:35-42: the wall-clock test passes, the worker is launched.
CtlLaunch ==
    /\ cpc = "top"
    /\ attempt <= MAX_ATTEMPTS
    /\ elapsed < MAX_WALL
    /\ cpc' = "wait"
    /\ wpc' = "start"
    /\ w' = NoLocals
    /\ UNCHANGED <<lab, env, disk, reqs, ended, hist, faults, kills, attempt, elapsed, exit_code>>

\* Lines 36-39: the wall-clock limit is reached.
CtlWallLimit ==
    /\ cpc = "top"
    /\ attempt <= MAX_ATTEMPTS
    /\ elapsed >= MAX_WALL
    /\ cpc' = "exit"
    /\ exit_code' = Some(2)
    /\ UNCHANGED <<lab, env, disk, wpc, w, reqs, ended, hist, faults, kills, attempt, elapsed>>

\* Lines 43-57: subprocess.call has returned (the worker process is gone); the
\* stats are read; success exits 0, anything else sleeps and goes round.  The
\* worker and the sleep took no time to speak of or enough to reach MAX_WALL
\* (the clock is only ever tested against MAX_WALL, so elapsed saturates there).
CtlAfterWorker ==
    /\ cpc = "wait"
    /\ wpc \in {"exited", "dead"}
    /\ wpc' = "none"
    /\ w' = NoLocals
    /\ reqs' = <<>>
    /\ ended' = ""
    /\ IF ok(read_stats(stats_file))
       THEN /\ cpc' = "exit"
            /\ exit_code' = Some(0)
            /\ UNCHANGED <<attempt, elapsed>>
       ELSE /\ cpc' = "top"
            /\ attempt' = attempt + 1
            /\ \E secs \in {0, MAX_WALL} : elapsed' = Min(elapsed + secs, MAX_WALL)
            /\ UNCHANGED exit_code
    /\ UNCHANGED <<lab, env, disk, hist, faults, kills>>

\* Lines 59-61: the attempts are used up.
CtlExhausted ==
    /\ cpc = "top"
    /\ attempt > MAX_ATTEMPTS
    /\ cpc' = "exit"
    /\ exit_code' = Some(1)
    /\ UNCHANGED <<lab, env, disk, wpc, w, reqs, ended, hist, faults, kills, attempt, elapsed>>

Next ==
    \/ WorkerStartup
    \/ LoopExit
    \/ PageRequest
    \/ WriteOutputs
    \/ Finalize
    \/ Kill
    \/ CtlLaunch
    \/ CtlWallLimit
    \/ CtlAfterWorker
    \/ CtlExhausted

Spec == Init /\ [][Next]_vars

\* ------------------------------------------------------------ properties
RowSet(rows) == {rows[i] : i \in 1..Len(rows)}
Last(q) == q[Len(q)]

\* The worker holds its locals (it has started and was neither killed nor raised).
HasLocals == wpc \in {"loop", "write", "final", "exited"}

\* The attempt wrote its outputs: the files on disk are this attempt's.
OutputsWritten == wpc \in {"final", "exited"}

\* The oldest entry of the page requested at idx, on the ET clock.
OldestEt(idx) == astimezone(bounds(FeedPage(feed, idx)).oldest[1], sysoff)

\* The requests of this attempt that returned entries.
PageReqs == {i \in 1..Len(reqs) : reqs[i].res = "page"}

RECURSIVE RunLoop(_)
\* The page loop run to its end with every fetch succeeding at once.
RunLoop(wk) ==
    IF wk.p >= max_pages \/ BudgetHit(wk) THEN wk
    ELSE LET r == PageIter(wk, fetch(feed, wk.start_idx, 1), sysoff, use_seek)
         IN  IF r.ctl = "continue" THEN RunLoop([r.w EXCEPT !.p = @ + 1]) ELSE r.w

\* One uninterrupted run over the feed, started on an empty outputs directory.
UninterruptedRun == Finished(RunLoop(Startup(Absent, {}, page_budget)))

\* C1: an attempt killed after some pages and run again with the checkpoint and
\* seen-keys files left on disk ends with the same kept records as one
\* uninterrupted run over the same feed (no fetch fails, both scans reach the
\* extended boundary).
C1_ResumeSameKept ==
    ( /\ hist = <<"kill", "exit">>
      /\ faults = 0
      /\ wpc = "exited"
      /\ ended = "extended"
      /\ UninterruptedRun.stats.hit_extended_boundary )
    => RowSet(snap_file.rows) = RowSet(UninterruptedRun.kept_rows)

\* C2: when the attempt stopped on its page budget, the checkpoint on disk at
\* exit is "incomplete" and names the first offset not yet scanned.
C2_BudgetLeavesIncompleteCkpt ==
    (wpc = "exited" /\ ended = "budget")
    => /\ ckpt_file.status = "incomplete"
       /\ ckpt_file.next_start_idx = w.start_idx

\* C3: right after startup, the run is resumed exactly when the checkpoint on
\* disk is an incomplete one for this run's window (start and end both equal);
\* a resumed run starts at the checkpoint's offset, any other at offset 0.
C3_ResumeOnlyIfHonored ==
    (wpc = "loop" /\ reqs = <<>>)
    => LET honored ==
               /\ ckpt_file.kind = "json"
               /\ ckpt_file.window_start_et = start_et
               /\ ckpt_file.window_end_et = end_et
               /\ ckpt_file.status = "incomplete"
       IN  /\ w.stats.resumed <=> honored
           /\ w.start_idx = IF honored THEN ckpt_file.next_start_idx ELSE 0

\* C3 witness: a run resumed at a later offset, and the stale checkpoints of the
\* initial states cover the other side.
C3_Witness ==
    wpc = "loop" /\ reqs = <<>> /\ w.stats.resumed /\ w.start_idx > 0

RECURSIVE TrailingStreak(_)
TrailingStreak(q) ==
    IF q = <<>> \/ Last(q).res = "page" THEN 0
    ELSE 1 + TrailingStreak(SubSeq(q, 1, Len(q) - 1))

\* C5: the attempt ends as soon as max_empty_pages consecutive pages failed or
\* were empty: the loop never goes on with such a streak behind it.
C5_StreakEndsAttempt ==
    wpc = "loop" => TrailingStreak(reqs) < max_empty_pages

\* C6: an attempt requests at most min(max_pages, attempt_page_budget) pages,
\* every pass of the loop makes exactly one request (so the loop ends), and a
\* failed or empty page never makes the loop raise.
C6_BoundedRequests ==
    /\ Len(reqs) <= Min(max_pages, page_budget)
    /\ HasLocals => w.p = Len(reqs) /\ w.p <= max_pages
    /\ ended = "raise" => Last(reqs).res = "page"

C6_Witness ==
    /\ wpc = "write"
    /\ Len(reqs) = Min(max_pages, page_budget)
    /\ \E i \in 1..Len(reqs) : reqs[i].res = "fail"
    /\ \E i \in 1..Len(reqs) : reqs[i].res = "empty"

\* C7: the stats written at the end of the attempt have hit_page_limit true
\* when the loop ended on max_pages or the page budget, false when it ended on
\* the extended boundary.
C7_PageLimitReported ==
    OutputsWritten
    => /\ ended \in {"budget", "max_pages"} => stats_file.hit_page_limit
       /\ ended = "extended" => ~stats_file.hit_page_limit

\* C8 as stated: hit_boundary at the end of an attempt means some page of the
\* attempt had an oldest entry older than window.start.
C8_HitBoundaryMeansStartCrossedOrig ==
    (OutputsWritten /\ stats_file.hit_boundary)
    => \E i \in PageReqs : Instant(OldestEt(reqs[i].idx)) < Instant(start_et)

\* C8 amended: hit_boundary at the end of an attempt means seek mode is on and
\* some page of the attempt had an oldest entry at or before window.end.
C8_HitBoundaryMeansEndCrossed ==
    (OutputsWritten /\ stats_file.hit_boundary)
    => /\ use_seek
       /\ \E i \in PageReqs : Instant(OldestEt(reqs[i].idx)) <= Instant(end_et)

\* C8 witness: hit_boundary is reported and no page was older than window.start.
C8_Witness ==
    /\ OutputsWritten
    /\ stats_file.hit_boundary
    /\ \A i \in PageReqs : Instant(OldestEt(reqs[i].idx)) >= Instant(start_et)

\* The worker process is running.
Running == wpc \in {"start", "loop", "write", "final"}
Launches == Len(hist) + (IF Running THEN 1 ELSE 0)

\* The stats on disk show hit_boundary with at least one entry seen / kept.
StatsSeen ==
    stats_file.kind = "json" /\ stats_file.hit_boundary /\ stats_file.entries_seen > 0
StatsKept ==
    stats_file.kind = "json" /\ stats_file.hit_boundary /\ stats_file.entries_kept > 0

\* C9 as stated: the controller exits 0 only when the stats show the boundary
\* crossed and at least one entry kept.
C9_ExitZeroMeansKeptOrig ==
    exit_code = Some(0) => StatsKept

\* C9 amended: the controller exits 0 exactly when the stats read after an
\* attempt show hit_boundary and entries_seen > 0 (it goes round only when they
\* do not); it exits 1 after MAX_ATTEMPTS launches, 2 when the elapsed time has
\* reached MAX_WALL with launches left; it never launches more than
\* MAX_ATTEMPTS times.
C9_ControllerExit ==
    /\ Launches <= MAX_ATTEMPTS
    /\ exit_code = Some(0) => StatsSeen /\ Launches >= 1
    /\ (cpc = "top" /\ attempt > 1) => ~StatsSeen
    /\ exit_code = Some(1) => Launches = MAX_ATTEMPTS /\ ~StatsSeen
    /\ exit_code = Some(2) => elapsed >= MAX_WALL /\ Launches < MAX_ATTEMPTS /\ ~StatsSeen
    /\ cpc = "exit" <=> exit_code # None

\* C9 witness: exit 0 with every seen entry banned.
C9_Witness ==
    exit_code = Some(0) /\ stats_file.entries_kept = 0

\* A row's timestamp lies in the window, a naive one read as utc.
RowInWindow(r) ==
    LET t == r.filing_datetime
        inst == IF t.aware THEN t.wall - t.off ELSE t.wall
    IN  Instant(start_et) <= inst /\ inst <= Instant(end_et)

RowOk(r) == RowInWindow(r) /\ r.form \in allowed_forms

\* C10: every record in the raw and kept rows, in memory and on disk, has its
\* timestamp inside [window.start, window.end] and a tracked form.
C10_RowsInWindowTracked ==
    /\ HasLocals => \A r \in RowSet(w.raw_rows) \cup RowSet(w.kept_rows) : RowOk(r)
    /\ raw_file.kind = "json" => \A r \in RowSet(raw_file.rows) : RowOk(r)
    /\ snap_file.kind = "json" => \A r \in RowSet(snap_file.rows) : RowOk(r)

\* C10 witness: a naive timestamp was emitted, on a feed that also held entries
\* outside the window.
C10_Witness ==
    /\ raw_file.kind = "json"
    /\ \E r \in RowSet(raw_file.rows) : ~r.filing_datetime.aware
    /\ Len(reqs) >= 2

\* ------------------------------------------------------------ dedup, bans, outputs
KeysOf(rows) == {make_key(rows[i]) : i \in 1..Len(rows)}
DistinctKeys(rows) ==
    \A i, j \in 1..Len(rows) : i # j => make_key(rows[i]) # make_key(rows[j])

\* The seen-keys file is written only as the process exits, so while the worker
\* runs it holds the registry that was loaded at start.
C11_Running == wpc \in {"loop", "write", "final"}

\* C11: no record whose key is in the seen-keys registry loaded at start is in
\* the raw or kept rows; no two rows of one run share a key; and a run that
\* follows one which exited (and so saved its registry) emits no record of the
\* raw output that run left on disk.
C11_SeenKeysDedup ==
    /\ C11_Running =>
           /\ KeysOf(w.raw_rows) \cap seen_file = {}
           /\ KeysOf(w.kept_rows) \subseteq KeysOf(w.raw_rows)
           /\ DistinctKeys(w.raw_rows)
           /\ DistinctKeys(w.kept_rows)
    /\ raw_file.kind = "json" => DistinctKeys(raw_file.rows)
    /\ snap_file.kind = "json" => DistinctKeys(snap_file.rows)
    /\ (wpc \in {"loop", "write"} /\ hist # <<>> /\ Last(hist) = "exit")
           => KeysOf(w.raw_rows) \cap KeysOf(raw_file.rows) = {}

\* C11 witness: the run after one that emitted records has scanned the page
\* that lists an entry twice, and emitted nothing.
C11_Witness ==
    /\ wpc = "write"
    /\ hist # <<>> /\ Last(hist) = "exit"
    /\ Len(raw_file.rows) >= 2
    /\ w.raw_rows = <<>>
    /\ \E i \in PageReqs : FeedPage(feed, reqs[i].idx) = PageB

\* A ban rule matches the record: its sic is a banned code, its sic starts with
\* a banned prefix, or its blob holds a banned keyword whatever the case.
RuleMatches(r) ==
    \/ r.sic # None /\ r.sic[1] \in ban_exact
    \/ r.sic # None /\ \E pre \in ban_pref : StartsWith(Digits(r.sic[1]), pre)
    \/ \E term \in ban_kw : \E x \in Blob(r) : Lower(x) = Lower(term)

ExcludedIffBanned(raw, kept) ==
    /\ KeysOf(kept) \subseteq KeysOf(raw)
    /\ \A r \in RowSet(raw) : (make_key(r) \notin KeysOf(kept)) <=> RuleMatches(r)

\* C12: a record of the raw rows is missing from the kept rows exactly when a
\* ban rule matches it; the snapshot json and the csv hold the kept rows only.
C12_BannedIffRuleMatches ==
    /\ HasLocals => ExcludedIffBanned(w.raw_rows, w.kept_rows)
    /\ OutputsWritten =>
           /\ ExcludedIffBanned(raw_file.rows, snap_file.rows)
           /\ csv_file.rows = [i \in 1..Len(snap_file.rows) |-> snap_file.rows[i].link]

\* C12 witness: the outputs hold a record banned by sic code, one by sic prefix,
\* one by a keyword of its title and one by a keyword of its industry, next to
\* a kept one.
C12_Witness ==
    /\ OutputsWritten
    /\ snap_file.rows # <<>>
    /\ {"c", "k", "s", "t"} \subseteq {raw_file.rows[i].link : i \in 1..Len(raw_file.rows)}

\* C15: an attempt whose page loop was left, however it was left, has written
\* the raw, stats and snapshot json and the csv; with no kept record the csv is
\* its header row alone.
C15_OutputsAlwaysWritten ==
    /\ (wpc = "dead" /\ ended = "raise") =>
           /\ raw_file.kind = "json"
           /\ stats_file.kind = "json"
           /\ snap_file.kind = "json"
           /\ csv_file.kind = "csv"
    /\ (OutputsWritten /\ w.kept_rows = <<>>) =>
           csv_file.kind = "csv" /\ csv_file.header = cols /\ csv_file.rows = <<>>

\* C20: during one run the submissions of a cik are requested at most once.
C20_OneRequestPerCik ==
    HasLocals =>
        \A i, j \in 1..Len(w.sub_reqs) : i # j => w.sub_reqs[i] # w.sub_reqs[j]

\* ------------------------------------------------------------ the ban filters alone
\* The worker and the controller are not running.
RunIdle ==
    /\ feed = <<>> /\ sysoff = 0 /\ use_seek = FALSE /\ page_budget = PageBudget
    /\ ckpt_file = Absent /\ seen_file = {} /\ stats_file = Absent
    /\ raw_file = Absent /\ snap_file = Absent /\ csv_file = Absent
    /\ wpc = "none" /\ w = NoLocals /\ reqs = <<>> /\ ended = "" /\ hist = <<>>
    /\ faults = 0 /\ kills = 0
    /\ cpc = "top" /\ attempt = 1 /\ elapsed = 0 /\ exit_code = None

\* term in text on lower-cased text given by its words; the empty string is in
\* every text.
InText(term, text) == term = "" \/ term \in text

\* bans.is_banned: a banned sic prefix, or a banned keyword in the lower-cased
\* company, summary and title.
is_banned(entry, cfg) ==
    LET sic == IF entry.sic = None THEN <<>> ELSE Digits(entry.sic[1])
        blob == LowerAll(entry.words)
    IN  \/ \E pre \in cfg.banned_sic_prefixes : StartsWith(sic, pre)
        \/ \E kw \in cfg.banned_keywords : InText(Lower(kw), blob)

\* A record whose title holds two of the keywords.
EntW == Entry("w", Et(630), "8-K", Some(7372), {"Casino", "Gaming"})

\* The records filtered and the keywords a configuration may list.
BanSample ==
    {Rec(e, parse_entry_time(e), entry_form(e)) : e \in {EntB, EntC, EntK, EntS, EntT, EntW}}
BanPool == {"casino", "Casino", "gaming", "tobacco", "TOBACCO", "cannabis", ""}

\* The links of the sample records each filter keeps under the keyword list kw:
\* the test of sec_only.main (line 240) and is_banned.
KeptUnder(kw) ==
    [by_keywords |->
        {r.link : r \in {x \in BanSample :
            ~(banned_by_sic(x.sic, ban_pref, ban_exact) \/ banned_by_keywords(Blob(x), kw))}},
     by_is_banned |->
        {r.link : r \in {x \in BanSample :
            ~is_banned(x, [banned_sic_prefixes |-> ban_pref, banned_keywords |-> kw])}}]

InitBan ==
    /\ RunIdle /\ ScoreIdle /\ ClockIdle /\ FormIdle /\ PipeIdle /\ CollIdle
    /\ banned_keywords = {}
    /\ ban_kept = KeptUnder({})

\* A keyword is added to the configuration and the records are filtered again.
AddKeyword ==
    /\ \E k \in BanPool \ banned_keywords : banned_keywords' = banned_keywords \cup {k}
    /\ ban_kept' = KeptUnder(banned_keywords')
    /\ UNCHANGED <<run, scorev, clockv, formv, pipev, collv>>

NextBan == AddKeyword

SpecBan == InitBan /\ [][NextBan]_vars

\* C13: adding a keyword to the banned-keyword list never brings a record back:
\* what each filter keeps under the longer list is a subset of what it kept.
C13_AddingKeywordOnlyBans ==
    [][/\ ban_kept'.by_keywords \subseteq ban_kept.by_keywords
       /\ ban_kept'.by_is_banned \subseteq ban_kept.by_is_banned]_vars

\* C13 witness: two listed keywords are both in the title of a record, which
\* neither filter keeps, while another record is still kept.
C13_Witness ==
    /\ {"casino", "gaming"} \subseteq banned_keywords
    /\ "w" \notin ban_kept.by_keywords
    /\ "w" \notin ban_kept.by_is_banned
    /\ "b" \in ban_kept.by_keywords \cap ban_kept.by_is_banned

\* ------------------------------------------------------------ the scorers alone
\* scoring.score_entry: base weight, 8-K item and form-4 code weights, and the
\* keyword weight once for every listed keyword found.
score_entry(e, cfg) ==
    LET wt == cfg.weights
        s0 == Get(wt.base, e.form)
        s1 == IF e.form = "8-K" THEN s0 + SumGet(wt.eightk_items, e.eightk_items) ELSE s0
        s2 == IF e.form = "4" THEN s1 + SumGet(wt.form4, e.form4_codes) ELSE s1
        lb == LowerAll(e.words)
        pos == {kw \in cfg.positive_keywords : InText(Lower(kw), lb)}
        neg == {kw \in cfg.negative_keywords : InText(Lower(kw), lb)}
    IN  s2 + Cardinality(pos) * wt.keywords.positive
           + Cardinality(neg) * wt.keywords.negative

\* fetch_sec_and_news.base_weight.
base_weight(form, items) ==
    LET f == Upper(form)
        item_w == [it \in {"2.02", "1.01", "2.01", "8.01", "3.01", "3.02", "5.03"} |->
                      CASE it = "2.02" -> 10
                        [] it \in {"1.01", "2.01"} -> 12
                        [] it = "8.01" -> 6
                        [] it = "3.01" -> -12
                        [] it = "3.02" -> -15
                        [] it = "5.03" -> -10]
    IN  CASE f \in {"8-K", "8-K/A"} -> SumGet(item_w, items)
          [] f \in {"6-K", "6-K/A"} -> 6
          [] f \in {"10-Q", "10-Q/A", "10-K", "10-K/A"} -> 5
          [] f = "4" -> 2
          [] f = "3" -> 1
          [] f \in {"SC 13D", "SC 13D/A"} -> 10
          [] f \in {"SC 13G", "SC 13G/A"} -> 2
          [] OTHER -> 0

\* fetch_sec_and_news.score_context: +3 for every bullish phrase in the text,
\* -6 for every bearish one.
score_context(txt) ==
    LET bull == {"raises guidance", "beat", "beats", "acquisition", "definitive agreement",
                 "buyback", "special dividend", "approval", "contract awarded",
                 "being acquired", "all-cash", "premium of", "activist",
                 "strategic alternatives"}
        bear == {"offering", "registered direct", "atm", "at-the-market", "shelf", "warrant",
                 "reverse split", "delisting", "deficiency", "going concern", "convertible"}
        low == LowerAll(txt)
    IN  3 * Cardinality(bull \cap low) - 6 * Cardinality(bear \cap low)

\* The records scored and the weight configurations: a form weight fw, an item
\* weight iw of either sign, a keyword penalty pen.
ScoreInputs ==
    [form : {"8-K", "10-Q", "4"},
     words : SUBSET {"2.02", "3.02", "acquisition", "bankruptcy", "offering"},
     fw : 0..MaxWeight, iw : (-MaxWeight)..MaxWeight, pen : 0..MaxWeight]

\* config/scoring.json, and the cfg of score_entry, with these weights.
ScoringOf(in) ==
    [form_weights |-> [f \in {"8-K", "10-Q", "4"} |-> in.fw],
     item_boosts_8k |-> [c \in {"2.02", "3.02"} |-> in.iw],
     positive_keywords |-> {"acquisition"}, pos_keyword_boost |-> in.fw,
     negative_keywords |-> {"bankruptcy"}, neg_keyword_penalty |-> in.pen,
     dilution_flags |-> {"offering"}, dilution_penalty |-> in.pen,
     form4_pos_boost_terms |-> {"purchase"}, form4_pos_boost |-> in.fw]
CfgOf(in) ==
    [weights |-> [base |-> [f \in {"8-K", "10-Q", "4"} |-> in.fw],
                  eightk_items |-> [c \in {"2.02", "3.02"} |-> in.iw],
                  form4 |-> [c \in {"P"} |-> in.fw],
                  keywords |-> [positive |-> in.fw, negative |-> -in.pen]],
     positive_keywords |-> {"acquisition"}, negative_keywords |-> {"bankruptcy"}]

\* The score each scorer gives the record: utils_sec.score_record,
\* scoring.score_entry, and base_weight + score_context of fetch_sec_and_news
\* (line 257).
Scores(in) ==
    LET items == item_codes_from_text(in.words)
    IN  [record |-> score_record([form |-> in.form, words |-> in.words], ScoringOf(in)),
         entry |-> score_entry([form |-> in.form, words |-> in.words,
                                eightk_items |-> items, form4_codes |-> {}], CfgOf(in)),
         doc |-> base_weight(in.form, IF in.form = "8-K" THEN items ELSE {})
                 + score_context(in.words)]

InitScore ==
    /\ RunIdle /\ BanIdle /\ ClockIdle /\ FormIdle /\ PipeIdle /\ CollIdle
    /\ score_in \in {Some(in) : in \in ScoreInputs}
    /\ score_out = None

\* The record is scored.
Score ==
    /\ score_out = None
    /\ score_out' = Some(Scores(score_in[1]))
    /\ UNCHANGED <<run, banv, score_in, clockv, formv, pipev, collv>>

NextScore == Score

SpecScore == InitScore /\ [][NextScore]_vars

\* C14: every score is at least zero, whichever scorer gave it.
C14_ScoresNonNegative ==
    score_out # None =>
        /\ score_out[1].record >= 0
        /\ score_out[1].entry >= 0
        /\ score_out[1].doc >= 0

\* ------------------------------------------------------------ the window resolvers alone
\* The calendar of the ET wall clock: day 0 is a Monday.  Clock arithmetic is
\* on the wall clock (no change of utc offset falls in the days tried).
DayOf(dt) == dt.wall \div MinutesPerDay
weekday(dt) == DayOf(dt) % 7

\* dt - timedelta(days=n), dt + timedelta(days=n).
MinusDays(dt, n) == Et(dt.wall - n * MinutesPerDay)
PlusDays(dt, n) == Et(dt.wall + n * MinutesPerDay)

\* dt.replace(hour=h, minute=m, second=0, microsecond=0), or the datetime built
\* from dt's date and h:m.
AtTime(dt, h, m) == Et(DayOf(dt) * MinutesPerDay + h * 60 + m)

RECURSIVE BackToWeekday(_)
\* while d.weekday() >= 5: d -= one day
BackToWeekday(d) == IF weekday(d) >= 5 THEN BackToWeekday(MinusDays(d, 1)) ELSE d

\* Variant of _prev_business_date that takes the day before, weekend or not.
_prev_calendar_date(d) == MinusDays(d, 1)

\* utils_sec._prev_business_date.
_prev_business_date(d) == BackToWeekday(MinusDays(d, 1))

\* utils_sec.et_window_prev0930_to_latest0930 at the instant now_et.
et_window_prev0930_to_latest0930(now_et, business_days) ==
    LET today_cut == AtTime(now_et, cutoff_hour, cutoff_minute)
        end0 == IF Instant(now_et) >= Instant(today_cut)
                THEN today_cut ELSE MinusDays(today_cut, 1)
        end_bd == BackToWeekday(end0)
        prev_biz == _prev_business_date(end_bd)
    IN  IF business_days
        THEN <<AtTime(prev_biz, cutoff_hour, cutoff_minute), end_bd>>
        ELSE <<MinusDays(end0, 1), end0>>

\* time_utils._is_weekend and _last_business_day.
_is_weekend(dt_et) == weekday(dt_et) >= 5
_last_business_day(dt_et) == BackToWeekday(dt_et)

\* compute_windows, lines 34-39: the weekend branch.
WeekendWindows(now_et) ==
    LET bday == _last_business_day(now_et)
        primary_end == AtTime(PlusDays(bday, 1), 0, 0)
    IN  [primary_start |-> AtTime(bday, 9, 30), primary_end |-> primary_end,
         tail_start |-> Some(primary_end),
         tail_end |-> Some(PlusDays(AtTime(bday, 9, 30), 1)),
         guard |-> TRUE]

\* Variant of WeekdayWindows that ends at the latest cutoff not in the future
\* and starts one business day before it.
WeekdayWindowsBusiness(now_et) ==
    LET win == et_window_prev0930_to_latest0930(now_et, TRUE)
    IN  [primary_start |-> win[1], primary_end |-> win[2],
         tail_start |-> None, tail_end |-> None, guard |-> FALSE]

\* compute_windows, lines 41-45: today 09:30 and the same time the day before.
WeekdayWindows(now_et) ==
    LET boundary == AtTime(now_et, 9, 30)
    IN  [primary_start |-> MinusDays(boundary, 1), primary_end |-> boundary,
         tail_start |-> None, tail_end |-> None, guard |-> FALSE]

\* time_utils.compute_windows(now_utc, weekend_guard).
compute_windows(now, guard) ==
    LET now_et == astimezone(now, 0)
    IN  IF guard /\ _is_weekend(now_et) THEN WeekendWindows(now_et)
        ELSE WeekdayWindows(now_et)

\* Variant of _within with both ends in.
_within_closed(dt, a, b) == Instant(dt) >= Instant(a) /\ Instant(dt) <= Instant(b)

\* grandmaster_sec_v23._within: a <= dt < b.
_within(dt, a, b) == Instant(dt) >= Instant(a) /\ Instant(dt) < Instant(b)

\* The instants tried: every minute of HorizonDays days from a Monday 00:00 utc.
ClockInstants ==
    {Aware(t, 0) : t \in (7 * MinutesPerDay)..((7 + HorizonDays) * MinutesPerDay - 1)}

InitClock ==
    /\ RunIdle /\ BanIdle /\ ScoreIdle /\ FormIdle /\ PipeIdle /\ CollIdle
    /\ now_utc \in ClockInstants
    /\ weekend_guard \in BOOLEAN
    /\ windows = None

\* The windows are resolved at now_utc.
ResolveWindows ==
    /\ windows = None
    /\ windows' =
         Some([et |-> [b \in BOOLEAN |->
                          et_window_prev0930_to_latest0930(astimezone(now_utc, 0), b)],
               cw |-> compute_windows(now_utc, weekend_guard)])
    /\ UNCHANGED <<run, banv, scorev, now_utc, weekend_guard, formv, pipev, collv>>

NextClock == ResolveWindows

SpecClock == InitClock /\ [][NextClock]_vars

\* now_utc on the ET wall clock, and the calendar of the claims: cutoff
\* instants, business days.
NowEt == astimezone(now_utc, 0)
Cutoff(day) == Et(day * MinutesPerDay + cutoff_hour * 60 + cutoff_minute)
BusinessDay(day) == day % 7 < 5

\* end is the latest cutoff on a business day that is not after now.
LatestBusinessCutoff(end, now) ==
    /\ end = Cutoff(DayOf(end))
    /\ BusinessDay(DayOf(end))
    /\ Instant(end) <= Instant(now)
    /\ \A d \in (DayOf(end) + 1)..DayOf(now) :
           ~(BusinessDay(d) /\ Instant(Cutoff(d)) <= Instant(now))

\* start is the cutoff on the business day just before end's day.
CutoffOneBusinessDayBefore(start, end) ==
    /\ start = Cutoff(DayOf(start))
    /\ BusinessDay(DayOf(start))
    /\ DayOf(start) < DayOf(end)
    /\ \A d \in (DayOf(start) + 1)..(DayOf(end) - 1) : ~BusinessDay(d)

\* C16: at a weekday instant et_window_prev0930_to_latest0930 with
\* business_days gives start < end <= now, end the latest cutoff on a business
\* day not in the future, start the cutoff on the business day before end's.
C16_EtWindowBusinessDays ==
    (windows # None /\ weekday(NowEt) < 5) =>
        LET start == windows[1].et[TRUE][1]
            end == windows[1].et[TRUE][2]
        IN  /\ Instant(start) < Instant(end)
            /\ Instant(end) <= Instant(NowEt)
            /\ LatestBusinessCutoff(end, NowEt)
            /\ CutoffOneBusinessDayBefore(start, end)

\* C16 witness: a Monday before the cutoff, resolved to Thursday - Friday.
C16_Witness ==
    /\ windows # None
    /\ weekday(NowEt) = 0
    /\ Instant(NowEt) < Instant(Cutoff(DayOf(NowEt)))
    /\ weekday(windows[1].et[TRUE][1]) = 3
    /\ weekday(windows[1].et[TRUE][2]) = 4

\* C17 as stated: at a weekday instant compute_windows' primary window ends at
\* the latest cutoff not in the future and starts at the cutoff one business
\* day earlier, with no tail.
C17_PrimaryIsBusinessDayWindowOrig ==
    (windows # None /\ weekday(NowEt) < 5) =>
        LET c == windows[1].cw
        IN  /\ LatestBusinessCutoff(c.primary_end, NowEt)
            /\ CutoffOneBusinessDayBefore(c.primary_start, c.primary_end)
            /\ c.tail_start = None /\ c.tail_end = None

\* C17 amended: at a weekday instant compute_windows' primary window ends at
\* 09:30 ET of the current ET day, passed or not, and starts 24 hours earlier,
\* business day or not, with no tail and the guard flag false.
C17_PrimaryIsYesterdayToToday ==
    (windows # None /\ weekday(NowEt) < 5) =>
        LET c == windows[1].cw
        IN  /\ c.primary_end = Cutoff(DayOf(NowEt))
            /\ c.primary_start = Cutoff(DayOf(NowEt) - 1)
            /\ c.tail_start = None /\ c.tail_end = None
            /\ ~c.guard

\* C17 witness: a Monday before 09:30: the window ends in the future and
\* starts on Sunday.
C17_Witness ==
    /\ windows # None
    /\ weekday(NowEt) = 0
    /\ Instant(windows[1].cw.primary_end) > Instant(NowEt)
    /\ weekday(windows[1].cw.primary_start) = 6

\* C18: on a Saturday or Sunday with the weekend guard on, the primary window
\* is [Friday 09:30, Saturday 00:00] and the tail [Saturday 00:00, Saturday
\* 09:30] of the latest Friday, the flag is true, the tail starts where the
\* primary ends, and no instant is within both (a <= dt < b).
C18_WeekendWindows ==
    (windows # None /\ weekend_guard /\ weekday(NowEt) >= 5) =>
        LET c == windows[1].cw
            fri == DayOf(NowEt) - (weekday(NowEt) - 4)
        IN  /\ c.guard
            /\ c.primary_start = Cutoff(fri)
            /\ c.primary_end = Et((fri + 1) * MinutesPerDay)
            /\ c.tail_start = Some(c.primary_end)
            /\ c.tail_end = Some(Cutoff(fri + 1))
            /\ \A t \in (c.primary_start.wall - 1)..(c.tail_end[1].wall + 1) :
                   ~(/\ _within(Et(t), c.primary_start, c.primary_end)
                     /\ _within(Et(t), c.tail_start[1], c.tail_end[1]))

\* C18 witness: a Sunday, resolved with the guard on.
C18_Witness ==
    /\ windows # None
    /\ weekend_guard
    /\ weekday(NowEt) = 6
    /\ windows[1].cw.guard

\* ------------------------------------------------------------ the form normalizers alone
\* A string is the sequence of its characters.
lowercase ==
    <<"a", "b", "c", "d", "e", "f", "g", "h", "i", "j", "k", "l", "m">> \o
    <<"n", "o", "p", "q", "r", "s", "t", "u", "v", "w", "x", "y", "z">>
uppercase ==
    <<"A", "B", "C", "D", "E", "F", "G", "H", "I", "J", "K", "L", "M">> \o
    <<"N", "O", "P", "Q", "R", "S", "T", "U", "V", "W", "X", "Y", "Z">>

\* str.upper, str.strip, sub in s, str.replace.
UpperChar(c) ==
    IF \E i \in 1..Len(lowercase) : lowercase[i] = c
    THEN uppercase[CHOOSE i \in 1..Len(lowercase) : lowercase[i] = c]
    ELSE c
str_upper(s) == [i \in 1..Len(s) |-> UpperChar(s[i])]

IsSpace(c) == c \in {" ", "\t"}

RECURSIVE lstrip(_)
lstrip(s) == IF s # <<>> /\ IsSpace(s[1]) THEN lstrip(Tail(s)) ELSE s
RECURSIVE rstrip(_)
rstrip(s) == IF s # <<>> /\ IsSpace(s[Len(s)]) THEN rstrip(SubSeq(s, 1, Len(s) - 1)) ELSE s
strip(s) == rstrip(lstrip(s))

HasAt(s, sub, i) == i + Len(sub) - 1 <= Len(s) /\ SubSeq(s, i, i + Len(sub) - 1) = sub
Contains(s, sub) == \E i \in 1..(Len(s) - Len(sub) + 1) : HasAt(s, sub, i)

RECURSIVE replace(_, _, _)
replace(s, old, new) ==
    IF s = <<>> THEN <<>>
    ELSE IF HasAt(s, old, 1)
         THEN new \o replace(SubSeq(s, Len(old) + 1, Len(s)), old, new)
         ELSE <<s[1]>> \o replace(Tail(s), old, new)

\* re.search of words joined by \s+ : the words in a row, white space between.
RECURSIVE MatchWordsAt(_, _, _)
MatchWordsAt(s, words, i) ==
    /\ HasAt(s, words[1], i)
    /\ \/ Len(words) = 1
       \/ LET j == i + Len(words[1])
              rest == SubSeq(s, j, Len(s))
          IN  /\ rest # <<>>
              /\ IsSpace(rest[1])
              /\ MatchWordsAt(s, Tail(words), j + (Len(rest) - Len(lstrip(rest))))
MatchWords(s, words) == \E i \in 1..Len(s) : MatchWordsAt(s, words, i)

\* s.split()[0] of a string that is not blank.
RECURSIVE FirstToken(_)
FirstToken(s) ==
    IF s = <<>> \/ IsSpace(s[1]) THEN <<>> ELSE <<s[1]>> \o FirstToken(Tail(s))

\* re.sub(r"\s+", " ", s)
RECURSIVE collapse(_)
collapse(s) ==
    IF s = <<>> THEN <<>>
    ELSE IF IsSpace(s[1]) THEN <<" ">> \o collapse(lstrip(s))
         ELSE <<s[1]>> \o collapse(Tail(s))

\* The least index of a sequence that satisfies the test, 0 if none does.
FirstIndex(hits) == IF hits = {} THEN 0 ELSE CHOOSE i \in hits : \A j \in hits : i <= j

\* The strings the normalizers name.
str_FORM == <<"F", "O", "R", "M">>
str_FORM_sp == <<"F", "O", "R", "M", " ">>
str_A == <<"/", "A">>
str_AMEND == <<"A", "M", "E", "N", "D">>
str_8K == <<"8", "-", "K">>
str_6K == <<"6", "-", "K">>
str_10Q == <<"1", "0", "-", "Q">>
str_10K == <<"1", "0", "-", "K">>
str_SC_13D == <<"S", "C", " ", "1", "3", "D">>
str_SC_13G == <<"S", "C", " ", "1", "3", "G">>
str_SC13D == <<"S", "C", "1", "3", "D">>
str_SC13G == <<"S", "C", "1", "3", "G">>
str_SC_13_D == <<"S", "C", " ", "1", "3", " ", "D">>
str_SC_13_G == <<"S", "C", " ", "1", "3", " ", "G">>
str_SCHEDULE_13D == <<"S", "C", "H", "E", "D", "U", "L", "E", " ", "1", "3", "D">>
str_SCHEDULE_13G == <<"S", "C", "H", "E", "D", "U", "L", "E", " ", "1", "3", "G">>
str_SC_13D_A == <<"S", "C", " ", "1", "3", "D", "/", "A">>
str_SC_13G_A == <<"S", "C", " ", "1", "3", "G", "/", "A">>
str_3 == <<"3">>
str_4 == <<"4">>
str_3_A == <<"3", "/", "A">>
str_4_A == <<"4", "/", "A">>
str_FORM_3_A == <<"F", "O", "R", "M", " ", "3", "/", "A">>
str_FORM_4_A == <<"F", "O", "R", "M", " ", "4", "/", "A">>
str_SC == <<"S", "C">>
str_CURRENT == <<"C", "U", "R", "R", "E", "N", "T">>
str_REPORT == <<"R", "E", "P", "O", "R", "T">>
str_OF == <<"O", "F">>
str_FOREIGN == <<"F", "O", "R", "E", "I", "G", "N">>
str_ISSUER == <<"I", "S", "S", "U", "E", "R">>
str_QUARTERLY == <<"Q", "U", "A", "R", "T", "E", "R", "L", "Y">>
str_ANNUAL == <<"A", "N", "N", "U", "A", "L">>
str_STATEMENT == <<"S", "T", "A", "T", "E", "M", "E", "N", "T">>
str_CHANGES == <<"C", "H", "A", "N", "G", "E", "S">>
str_IN == <<"I", "N">>
str_BENEFICIAL == <<"B", "E", "N", "E", "F", "I", "C", "I", "A", "L">>
str_OWNERSHIP == <<"O", "W", "N", "E", "R", "S", "H", "I", "P">>
str_INITIAL == <<"I", "N", "I", "T", "I", "A", "L">>
str_SCHEDULE == <<"S", "C", "H", "E", "D", "U", "L", "E">>
str_13D == <<"1", "3", "D">>
str_13G == <<"1", "3", "G">>

\* None, and the IndexError of [][0], as results.
PyNone == <<"None">>
IndexError == <<"IndexError">>

\* fetch_sec_and_news.normalize_form, lines 74-79: the direct tokens in order.
DirectBases == <<str_8K, str_6K, str_10Q, str_10K, str_SC_13D, str_SC_13G>>

\* Lines 82-92: desc_map, each pattern by its words.
desc_map ==
    << [pat |-> <<str_CURRENT, str_REPORT>>, base |-> str_8K],
       [pat |-> <<str_REPORT, str_OF, str_FOREIGN>>, base |-> str_6K],
       [pat |-> <<str_FOREIGN, str_ISSUER>>, base |-> str_6K],
       [pat |-> <<str_QUARTERLY, str_REPORT>>, base |-> str_10Q],
       [pat |-> <<str_ANNUAL, str_REPORT>>, base |-> str_10K],
       [pat |-> <<str_STATEMENT, str_OF, str_CHANGES, str_IN, str_BENEFICIAL, str_OWNERSHIP>>,
        base |-> str_4],
       [pat |-> <<str_INITIAL, str_STATEMENT, str_OF, str_BENEFICIAL, str_OWNERSHIP>>,
        base |-> str_3],
       [pat |-> <<str_SCHEDULE, str_13D>>, base |-> str_SC_13D],
       [pat |-> <<str_SCHEDULE, str_13G>>, base |-> str_SC_13G] >>

\* Line 68: re.sub(r"^FORM\s+", "", u).
StripLeadingForm(u) ==
    IF HasAt(u, str_FORM, 1) /\ Len(u) > Len(str_FORM) /\ IsSpace(u[Len(str_FORM) + 1])
    THEN lstrip(SubSeq(u, Len(str_FORM) + 1, Len(u)))
    ELSE u

\* fetch_sec_and_news.normalize_form.
normalize_form(raw) ==
    LET u0 == strip(str_upper(raw))
        u1 == replace(replace(u0, str_SC13D, str_SC_13D), str_SC13G, str_SC_13G)
        u == StripLeadingForm(u1)
        is_amend == Contains(u, str_A) \/ Contains(u, str_AMEND)
        direct == FirstIndex({i \in 1..Len(DirectBases) : Contains(u, DirectBases[i])})
        desc == FirstIndex({i \in 1..Len(desc_map) : MatchWords(u, desc_map[i].pat)})
        first == FirstToken(u)
        amendable == {str_8K, str_6K, str_10Q, str_10K, str_SC_13D, str_SC_13G}
    IN  IF raw = <<>> THEN <<>>
        ELSE IF direct # 0
        THEN LET base == DirectBases[direct]
             IN  IF base \in {str_8K, str_6K, str_10Q, str_10K}
                 THEN IF is_amend \/ Contains(u, base \o str_A) THEN base \o str_A ELSE base
                 ELSE IF is_amend THEN base \o str_A ELSE base
        ELSE IF desc # 0
        THEN LET base == desc_map[desc].base
             IN  IF base \in amendable /\ is_amend THEN base \o str_A ELSE base
        ELSE IF u = <<>> THEN IndexError
        ELSE IF first \in {str_8K, str_6K, str_10Q, str_10K, str_3, str_4, str_SC,
                           str_SC13D, str_SC13G}
        THEN replace(replace(first, str_SC13D, str_SC_13D), str_SC13G, str_SC_13G)
        ELSE u

\* fetch_sec_only.TRACK_FORMS and normalize_form.
TRACK_FORMS ==
    {str_8K, str_6K, str_10Q, str_10K, str_3, str_4, str_SC_13D, str_SC_13G,
     str_SC_13D_A, str_SC_13G_A, str_3_A, str_4_A}

normalize_form_sec_only(text) ==
    LET t == IF text = PyNone THEN <<>> ELSE text
        s0 == collapse(strip(replace(str_upper(t), str_FORM_sp, <<>>)))
        s1 == replace(replace(s0, str_SCHEDULE_13D, str_SC_13D), str_SCHEDULE_13G, str_SC_13G)
        s2 == replace(replace(s1, str_SC13D, str_SC_13D), str_SC13G, str_SC_13G)
        s == replace(replace(s2, str_SC_13_D, str_SC_13D), str_SC_13_G, str_SC_13G)
    IN  IF s \in {str_3_A, str_FORM_3_A} THEN str_3_A
        ELSE IF s \in {str_4_A, str_FORM_4_A} THEN str_4_A
        ELSE IF s \in {str_8K, str_6K, str_10Q, str_10K, str_3, str_4, str_SC_13D,
                       str_SC_13G, str_SC_13D_A, str_SC_13G_A} THEN s
        ELSE IF s \in TRACK_FORMS THEN s ELSE PyNone

\* The raw form strings tried (each with the text it spells).
FormSample ==
    { <<>>,  \* ""
      <<"8", "-", "K">>,  \* "8-K"
      <<"8", "-", "k">>,  \* "8-k"
      <<"8", "-", "K", "/", "A">>,  \* "8-K/A"
      <<"1", "0", "-", "Q">>,  \* "10-Q"
      <<"1", "0", "-", "K">>,  \* "10-K"
      <<"1", "0", "-", "K", "/", "A">>,  \* "10-K/A"
      <<"1", "0", "-", "K", "T", "/", "A">>,  \* "10-KT/A"
      <<"6", "-", "K">>,  \* "6-K"
      <<"3">>,  \* "3"
      <<"4">>,  \* "4"
      <<"4", "/", "A">>,  \* "4/A"
      <<"3", "/", "A">>,  \* "3/A"
      <<"S", "C", "1", "3", "D">>,  \* "SC13D"
      <<"S", "C", " ", "1", "3", "D">>,  \* "SC 13D"
      <<"S", "C", " ", "1", "3", "D", "/", "A">>,  \* "SC 13D/A"
      <<"S", "C", "1", "3", "G", "/", "A">>,  \* "SC13G/A"
      <<"S", "C", " ", "1", "3", " ", "D">>,  \* "SC 13 D"
      <<"S", "c", "h", "e", "d", "u", "l", "e", " ", "1", "3", "D">>,  \* "Schedule 13D"
      <<"S", "c", "h", "e", "d", "u", "l", "e", " ", "1", "3", "G", "/", "A">>,  \* "Schedule 13G/A"
      <<"s", "c", "h", "e", "d", "u", "l", "e", " ", "1", "3", "d", " ", "a", "m", "e", "n", "d", "m", "e", "n", "t">>,  \* "schedule 13d amendment"
      <<"F", "o", "r", "m", " ", "4">>,  \* "Form 4"
      <<"F", "O", "R", "M", " ", "3">>,  \* "FORM 3"
      <<"F", "o", "r", "m", " ", "8", "-", "K">>,  \* "Form 8-K"
      <<"F", "O", "R", "M", " ", "4", "/", "A">>,  \* "FORM 4/A"
      <<"F", "o", "r", "m", " ", " ", "1", "0", "-", "Q">>,  \* "Form  10-Q"
      <<" ", "f", "o", "r", "m", " ", "3", "/", "A", " ">>,  \* " form 3/A "
      <<"F", "O", "R", "M", " ", "S", "C", "1", "3", "D">>,  \* "FORM SC13D"
      <<"F", "O", "R", "M", " ", "F", "O", "R", "M", " ", "4">>,  \* "FORM FORM 4"
      <<"F", "o", "r", "m", " ", "F", "o", "r", "m", " ", "3", "/", "A">>,  \* "Form Form 3/A"
      <<"C", "u", "r", "r", "e", "n", "t", " ", "r", "e", "p", "o", "r", "t">>,  \* "Current report"
      <<"A", "n", "n", "u", "a", "l", " ", "r", "e", "p", "o", "r", "t", " ", "a", "m", "e", "n", "d", "m", "e", "n", "t">>,  \* "Annual report amendment"
      <<"8", "-", "K", " ", "-", " ", "C", "u", "r", "r", "e", "n", "t", " ", "r", "e", "p", "o", "r", "t">>,  \* "8-K - Current report"
      <<"Q", "u", "a", "r", "t", "e", "r", "l", "y", " ", "r", "e", "p", "o", "r", "t">>,  \* "Quarterly report"
      <<"I", "n", "i", "t", "i", "a", "l", " ", "s", "t", "a", "t", "e", "m", "e", "n", "t", " ", "o", "f", " ", "b", "e", "n", "e", "f", "i", "c", "i", "a", "l", " ", "o", "w", "n", "e", "r", "s", "h", "i", "p">>,  \* "Initial statement of beneficial ownership"
      <<"S", "t", "a", "t", "e", "m", "e", "n", "t", " ", "o", "f", " ", "c", "h", "a", "n", "g", "e", "s", " ", "i", "n", " ", "b", "e", "n", "e", "f", "i", "c", "i", "a", "l", " ", "o", "w", "n", "e", "r", "s", "h", "i", "p">>,  \* "Statement of changes in beneficial ownership"
      <<"S", "-", "1">>,  \* "S-1"
      <<"4", "2", "4", "B", "5">>,  \* "424B5"
      <<"S", "C", " ", "T", "O", "-", "T">>,  \* "SC TO-T"
      <<"D">>,  \* "D"
      <<"F", "O", "R", "M", " ", "D">> }  \* "FORM D"

InitForm ==
    /\ RunIdle /\ BanIdle /\ ScoreIdle /\ ClockIdle /\ PipeIdle /\ CollIdle
    /\ form_raw \in FormSample
    /\ form_norm = [news |-> <<>>, only |-> <<>>]

\* Each normalizer is applied once more, to its own last result.
ApplyNormalize ==
    /\ Len(form_norm.news) < MaxApply
    /\ form_norm' =
         [news |-> Append(form_norm.news,
                          IF form_norm.news = <<>> THEN normalize_form(form_raw)
                          ELSE IF Last(form_norm.news) = IndexError THEN IndexError
                          ELSE normalize_form(Last(form_norm.news))),
          only |-> Append(form_norm.only,
                          normalize_form_sec_only(IF form_norm.only = <<>> THEN form_raw
                                                  ELSE Last(form_norm.only)))]
    /\ UNCHANGED <<run, banv, scorev, clockv, form_raw, pipev, collv>>

NextForm == ApplyNormalize

SpecForm == InitForm /\ [][NextForm]_vars

\* C19: applying a normalizer again to its own result changes nothing.
C19_NormalizeIdempotent ==
    /\ \A i \in 1..Len(form_norm.news) : form_norm.news[i] = form_norm.news[1]
    /\ \A i \in 1..Len(form_norm.only) : form_norm.only[i] = form_norm.only[1]


\* ------------------------------------------------------------ checkpoints, seek, scan
\* The offset the next request of the attempt will use.
NextOffset == w.start_idx

\* C23: after every pass of the page loop that requested a page and goes on
\* (failed fetch, empty page, seek jump, normal advance) the checkpoint on disk is
\* "incomplete", names this run's window and the offset the next request will
\* use; the offsets requested within an attempt never decrease, nor does the
\* checkpoint's offset fall below the last one requested.
C23_CheckpointEveryPage ==
    /\ (wpc = "loop" /\ reqs # <<>>) =>
           /\ ckpt_file.kind = "json"
           /\ ckpt_file.status = "incomplete"
           /\ ckpt_file.window_start_et = start_et
           /\ ckpt_file.window_end_et = end_et
           /\ ckpt_file.next_start_idx = NextOffset
           /\ ckpt_file.next_start_idx >= Last(reqs).idx
    /\ \A i \in 1..(Len(reqs) - 1) : reqs[i].idx <= reqs[i + 1].idx

\* C23 witness: an attempt that goes on after a failed fetch, a seek jump and a
\* normal advance, started with a stale or missing checkpoint on disk.
C23_Witness ==
    /\ wpc = "loop"
    /\ ckpt_file.kind = "json"
    /\ ckpt_file.next_start_idx = NextOffset
    /\ \E i \in 1..Len(reqs) : reqs[i].res = "fail"
    /\ \E i \in 1..(Len(reqs) - 1) :
           reqs[i].res = "page" /\ reqs[i + 1].idx = reqs[i].idx + 200
    /\ Last(reqs).res = "page" /\ NextOffset = Last(reqs).idx + count

\* ------------------------------------------------------------ longer feeds, used outputs
\* Pages further past the window end (gaps of 90, 150 and 300 minutes), a page
\* inside the window, and a page that reaches from the window to beyond the
\* extended stop.
EntU == Entry("u", Et(end_et.wall + 90), "8-K", Some(7372), {})
EntV == Entry("v", Et(end_et.wall + 150), "8-K", Some(7372), {})
EntX == Entry("x", Et(end_et.wall + 300), "8-K", Some(7372), {})
EntP == Entry("p", Et(300), "8-K", Some(7372), {})
PageU == <<EntU>>
PageV == <<EntV>>
PageX == <<EntX>>
PageP == <<EntP>>
PageL == <<EntP, EntG>>

ScanFeeds ==
    { <<PageU, PageA, PageB, PageC, PageP, PageE, PageG>>,
      <<PageV, PageA, PageB>>,
      <<PageX, PageA, PageL>>,
      <<PageA, PageB, PageC>>,
      <<PageB, PageC, PageL>>,
      <<PageB, PageE, PageG>> }

\* What an earlier day's run that met its boundary left in outputs/: its final
\* checkpoint, seen keys, stats, raw rows, snapshot and csv.
PrevRec == [Rec(EntF, EntF.updated, "8-K") EXCEPT !.score = Some(3)]
PrevStats ==
    [Stats0 EXCEPT !.window_start_et = Et(start_et.wall - MinutesPerDay),
                   !.window_end_et = start_et,
                   !.pages_fetched = 2, !.entries_seen = 1, !.entries_kept = 1,
                   !.hit_boundary = TRUE, !.hit_extended_boundary = TRUE,
                   !.last_oldest_et_scanned = Some(EntG.updated.wall)]
PrevDisk ==
    [ckpt |-> Checkpoint("complete", PrevStats.window_start_et, PrevStats.window_end_et,
                         0, PrevStats.last_oldest_et_scanned),
     seen |-> {make_key(PrevRec)},
     stats |-> PrevStats,
     raw |-> Rows(<<PrevRec>>),
     snap |-> Rows(<<PrevRec>>),
     csv |-> to_csv(<<PrevRec>>)]
FreshDisk ==
    [ckpt |-> Absent, seen |-> {}, stats |-> Absent, raw |-> Absent, snap |-> Absent,
     csv |-> Absent]

InitScan ==
    /\ BanIdle /\ ScoreIdle /\ ClockIdle /\ FormIdle /\ PipeIdle /\ CollIdle
    /\ feed \in ScanFeeds
    /\ sysoff = 0
    /\ \E st \in Settings : use_seek = st[1] /\ page_budget = st[2]
    /\ \E d \in {FreshDisk, PrevDisk} :
         /\ ckpt_file = d.ckpt
         /\ seen_file = d.seen
         /\ stats_file = d.stats
         /\ raw_file = d.raw
         /\ snap_file = d.snap
         /\ csv_file = d.csv
    /\ wpc = "none"
    /\ w = NoLocals
    /\ reqs = <<>>
    /\ ended = ""
    /\ hist = <<>>
    /\ faults = 0
    /\ kills = 0
    /\ cpc = "top"
    /\ attempt = 1
    /\ elapsed = 0
    /\ exit_code = None

SpecScan == InitScan /\ [][Next]_vars

\* ------------------------------------------------------------ seek mode
IsPage(i) == reqs[i].res = "page"
\* The request raised in bounds (the last request of an attempt that raised).
Raised(i) == i = Len(reqs) /\ ended = "raise"
\* Minutes by which the oldest entry of the page of request i is past window.end.
Gap(i) == Instant(OldestEt(reqs[i].idx)) - Instant(end_et)
\* Some earlier page of the attempt had its oldest entry at or before window.end.
CrossedBefore(i) == \E j \in 1..(i - 1) : IsPage(j) /\ ~Raised(j) /\ Gap(j) <= 0
\* Request i is answered by a seek jump.
Jumped(i) == use_seek /\ IsPage(i) /\ ~Raised(i) /\ ~CrossedBefore(i) /\ Gap(i) > 0
\* The offset in use after request i.
OffsetAfter(i) == IF i < Len(reqs) THEN reqs[i + 1].idx ELSE w.start_idx

Links(rows) == {rows[i].link : i \in 1..Len(rows)}
PageLinks(i) ==
    LET pg == FeedPage(feed, reqs[i].idx) IN {pg[k].link : k \in 1..Len(pg)}
\* The entries of the page of request i that lie in the window with a tracked form.
PageWanted(i) ==
    LET pg == FeedPage(feed, reqs[i].idx)
    IN  {pg[k] : k \in {k \in 1..Len(pg) :
                          /\ within_window(parse_entry_time(pg[k]), start_et, end_et)
                          /\ entry_form(pg[k]) \in allowed_forms}}
KeyOfEntry(e) == make_key(Rec(e, parse_entry_time(e), entry_form(e)))

\* The stride stated for a gap of g minutes, and gaps around each threshold.
StatedStride(g) ==
    IF g > 4 * 60 THEN 2000 ELSE IF g > 2 * 60 THEN 1000 ELSE IF g > 60 THEN 500 ELSE 200
GapSample == {1, 59, 60, 61, 119, 120, 121, 239, 240, 241, 600}

\* C24: with seek on and no page so far at or before window.end, a page whose
\* oldest entry is newer than window.end gives no raw or kept record and moves
\* the offset on by 200, 500, 1000 or 2000 for a gap over 0, 1, 2 or 4 hours (a
\* stride that never shrinks as the gap grows); every other page with entries
\* (the first one at or before window.end included) is processed for its
\* in-window entries and, unless it ends the scan, moves the offset on by the
\* number of entries returned.
C24_SeekThenNormalAdvance ==
    /\ \A g1, g2 \in GapSample : g1 <= g2 => jump(g1) <= jump(g2)
    /\ HasLocals =>
         \A i \in 1..Len(reqs) :
             /\ Jumped(i) =>
                    /\ OffsetAfter(i) = reqs[i].idx + StatedStride(Gap(i))
                    /\ PageLinks(i) \cap (Links(w.raw_rows) \cup Links(w.kept_rows)) = {}
             /\ (IsPage(i) /\ ~Raised(i) /\ ~Jumped(i)) =>
                    /\ \A e \in PageWanted(i) : KeyOfEntry(e) \in w.seen
                    /\ (i < Len(reqs) \/ ended # "extended") =>
                           OffsetAfter(i) = reqs[i].idx
                                            + returned_entries(FeedPage(feed, reqs[i].idx))

\* C24 witness: a jump of 500 landed on a page at or before window.end, whose
\* in-window entry was emitted, and the offset then moved on by one page.
C24_Witness ==
    /\ wpc = "loop"
    /\ Len(reqs) = 2
    /\ Jumped(1) /\ reqs[2].idx = reqs[1].idx + 500
    /\ IsPage(2) /\ ~Jumped(2)
    /\ PageWanted(2) # {}
    /\ \A e \in PageWanted(2) : e.link \in Links(w.raw_rows)
    /\ w.start_idx = reqs[2].idx + count

\* ------------------------------------------------------------ extended stop
\* window.start minus scan_extend_days days, as an instant.
StatedStop == Instant(start_et) - scan_extend_days * MinutesPerDay

\* C25: a page that is processed and whose oldest entry is older than
\* window.start minus scan_extend_days ends the attempt, after its in-window
\* entries were handled, with hit_extended_boundary true and no further request;
\* a processed page whose oldest entry is not that old (older than window.start
\* or not) never ends the attempt on the extended boundary.
C25_ExtendedStop ==
    /\ HasLocals =>
         \A i \in 1..Len(reqs) :
             (IsPage(i) /\ ~Raised(i) /\ ~Jumped(i)) =>
                 IF Instant(OldestEt(reqs[i].idx)) < StatedStop
                 THEN /\ i = Len(reqs)
                      /\ wpc # "loop"
                      /\ ended = "extended"
                      /\ w.stats.hit_extended_boundary
                      /\ \A e \in PageWanted(i) : KeyOfEntry(e) \in w.seen
                 ELSE i = Len(reqs) => (wpc = "loop" \/ ended \in {"budget", "max_pages"})
    /\ HasLocals => (w.stats.hit_extended_boundary <=> ended = "extended")
    /\ (OutputsWritten /\ ended = "extended") => stats_file.hit_extended_boundary

\* C25 witness: the attempt stopped on a page reaching beyond the extended stop
\* whose in-window entry was emitted, after a page that did not stop it.
C25_Witness ==
    /\ wpc = "write"
    /\ ended = "extended"
    /\ Len(reqs) >= 2
    /\ PageWanted(Len(reqs)) # {}
    /\ \A e \in PageWanted(Len(reqs)) : e.link \in Links(w.raw_rows)
    /\ \E i \in 1..(Len(reqs) - 1) : IsPage(i) /\ ~Jumped(i)

\* ------------------------------------------------------------ completeness
\* The entries of the whole feed that lie in the window with a tracked form.
FeedWanted ==
    {feed[i][k] : <<i, k>> \in {<<i, k>> \in (1..Len(feed)) \X (1..5) :
                     /\ k <= Len(feed[i])
                     /\ within_window(parse_entry_time(feed[i][k]), start_et, end_et)
                     /\ entry_form(feed[i][k]) \in allowed_forms}}

\* C26: a first attempt from offset 0 over a feed with no failed fetch that ends
\* on the extended boundary has every in-window entry of a tracked form, whose
\* key was not seen before, in its raw rows.
C26_ScanComplete ==
    ( /\ wpc \in {"write", "final"}
      /\ ended = "extended"
      /\ ~w.stats.resumed
      /\ faults = 0 )
    => \A e \in FeedWanted :
           KeyOfEntry(e) \notin seen_file => KeyOfEntry(e) \in KeysOf(w.raw_rows)

\* ------------------------------------------------------------ attempts in a row
\* C27: whenever the snapshot files are written over during the controller's run,
\* every record the snapshot held whose key is in the seen-keys registry is in
\* the new snapshot too, in the json and in the csv.
C27_SnapshotKeepsEarlierRecords ==
    [][ (snap_file.kind = "json" /\ snap_file' # snap_file /\ hist # <<>>) =>
          /\ \A k \in KeysOf(snap_file.rows) \cap seen_file : k \in KeysOf(snap_file'.rows)
          /\ \A i \in 1..Len(snap_file.rows) :
                 make_key(snap_file.rows[i]) \in seen_file =>
                     \E j \in 1..Len(csv_file'.rows) :
                         csv_file'.rows[j] = snap_file.rows[i].link ]_vars

\* C28: the controller exits 0 only after a worker that wrote the stats it reads:
\* one that ran to its exit, or one killed after its page loop had ended (when
\* the outputs may have been written).  A worker that raised, or was killed in
\* its page loop, wrote none.
C28_ExitZeroOnFreshStats ==
    [][ (exit_code = None /\ exit_code' = Some(0)) =>
          \/ wpc = "exited"
          \/ wpc = "dead" /\ Last(hist) = "kill" /\ ended \notin {"", "raise"} ]_vars

\* ------------------------------------------------------------ counters
RowBannedSic(r) == banned_by_sic(r.sic, ban_pref, ban_exact)
RowBannedKw(r) == banned_by_keywords(Blob(r), ban_kw)

\* C29: in the stats an attempt writes, entries_seen is the number of raw rows
\* and equals entries_kept + banned_sic + banned_kw, where banned_sic counts the
\* raw rows a SIC rule matches, banned_kw those only a keyword matches, and
\* entries_kept the rows of the snapshot.
C29_CountersAddUp ==
    OutputsWritten =>
        /\ stats_file.entries_seen
               = stats_file.entries_kept + stats_file.banned_sic + stats_file.banned_kw
        /\ stats_file.entries_seen = Len(raw_file.rows)
        /\ stats_file.entries_kept = Len(snap_file.rows)
        /\ stats_file.banned_sic
               = Cardinality({i \in 1..Len(raw_file.rows) : RowBannedSic(raw_file.rows[i])})
        /\ stats_file.banned_kw
               = Cardinality({i \in 1..Len(raw_file.rows) :
                                 ~RowBannedSic(raw_file.rows[i]) /\ RowBannedKw(raw_file.rows[i])})

\* C29 witness: the stats count a kept record, one banned by keyword alone, and
\* one that both a SIC rule and a keyword match.
C29_Witness ==
    /\ OutputsWritten
    /\ stats_file.entries_kept > 0
    /\ stats_file.banned_kw > 0
    /\ \E i \in 1..Len(raw_file.rows) :
           RowBannedSic(raw_file.rows[i]) /\ RowBannedKw(raw_file.rows[i])

\* ------------------------------------------------------------ grandmaster_sec_v23.main
\* The two copies of the pipeline: src/grandmaster_sec_v23.py ("root") and
\* src/scripts/sec/grandmaster_sec_v23.py ("scripts").  An entry is given by
\* what the pipeline asks of it: inside the window, of a supported form, banned.
\* The sample holds one filing per company and fewer than
\* max_entries_after_form of them, and the window gathered is the last one tried.
MaxCollected == 2

EntryKinds == [win : BOOLEAN, form_ok : BOOLEAN, banned : BOOLEAN]
Collected == UNION {[1..n -> EntryKinds] : n \in 0..MaxCollected}
\* Values of the environment variable CI, "" for unset.
CiValues == {"", "true", "True"}
\* str(ex) of the exceptions tried.
Messages == {"", "timed out"}

InWin(e) == e.win
FormOk(e) == e.form_ok
NotBanned(e) == ~e.banned

\* The stats object of line 20 (root) / 94 (scripts), by the fields the claims
\* are about.
PipeStats0 ==
    [kind |-> "json", hit_boundary |-> FALSE, entries_seen |-> 0, entries_kept |-> 0,
     last_error |-> None]

\* main after the stats object is created, before the try.
PipeStart ==
    [pc |-> "config", stats |-> PipeStats0, entries |-> <<>>, strict |-> <<>>,
     kept |-> <<>>, raw_file |-> Absent, snap_file |-> Absent, csv_file |-> Absent,
     stats_file |-> Absent, exit_code |-> None, err |-> None]

\* root 36-46: the in-window entries set hit_boundary, then the form filter;
\* scripts 125-135: the form filter, and what is left sets hit_boundary.
filter_entries(copy, st) ==
    IF copy = "root"
    THEN LET inwin == SelectSeq(st.entries, InWin)
         IN  [st EXCEPT !.stats.hit_boundary = inwin # <<>>,
                        !.strict = SelectSeq(inwin, FormOk)]
    ELSE LET strict == SelectSeq(st.entries, FormOk)
         IN  [st EXCEPT !.stats.hit_boundary = strict # <<>>, !.strict = strict]

\* root 69-84: enriched, then the banned ones dropped; scripts 141-175: every
\* strict entry is scored and kept.
keep_entries(copy, st) ==
    IF copy = "root" THEN [st EXCEPT !.kept = SelectSeq(st.strict, NotBanned)]
    ELSE [st EXCEPT !.kept = st.strict]

\* passed, root 116 / scripts 191.
passed(stats) == stats.hit_boundary /\ stats.entries_kept > 0

\* Variant of exit_status that does not look at CI.
exit_status_any_env(ci, stats) == IF ~passed(stats) THEN 1 ELSE 0

\* root 118 / scripts 193: sys.exit(1) under CI == "true" when not passed, else
\* main returns and the interpreter exits 0.
exit_status(ci, stats) == IF ci = "true" /\ ~passed(stats) THEN 1 ELSE 0

\* Variant of except_handler that re-raises without writing.
except_reraise_only(st, msg) ==
    [st EXCEPT !.pc = "raised", !.err = Some(msg), !.exit_code = Some(1)]

\* root 120-123 / scripts 194-196: last_error is set, the stats are written,
\* the exception is raised again (an uncaught exception ends the process
\* with status 1).
except_handler(st, msg) ==
    LET stats == [st.stats EXCEPT !.last_error = Some(msg)]
    IN  [st EXCEPT !.pc = "raised", !.err = Some(msg), !.exit_code = Some(1),
                   !.stats = stats, !.stats_file = stats]

\* The statements inside the try that can raise an Exception.
TrySteps == {"config", "gather", "filter", "enrich", "write", "stats", "upload"}

InitPipe ==
    /\ RunIdle /\ BanIdle /\ ScoreIdle /\ ClockIdle /\ FormIdle /\ CollIdle
    /\ v23_in \in [copy : {"root", "scripts"}, ci : CiValues, collected : Collected]
    /\ v23 = PipeStart

PipeUnchanged == UNCHANGED <<run, banv, scorev, clockv, formv, collv, v23_in>>

\* root 27-32 / scripts 97-104: config, client, enricher, windows.
PipeConfig ==
    /\ v23.pc = "config"
    /\ v23' = [v23 EXCEPT !.pc = "gather"]
    /\ PipeUnchanged

\* root 33 / scripts 105-124: the entries are gathered.
PipeGather ==
    /\ v23.pc = "gather"
    /\ v23' = [v23 EXCEPT !.pc = "filter", !.entries = v23_in.collected]
    /\ PipeUnchanged

PipeFilter ==
    /\ v23.pc = "filter"
    /\ v23' = [filter_entries(v23_in.copy, v23) EXCEPT !.pc = "enrich"]
    /\ PipeUnchanged

PipeEnrich ==
    /\ v23.pc = "enrich"
    /\ v23' = [keep_entries(v23_in.copy, v23) EXCEPT !.pc = "write"]
    /\ PipeUnchanged

\* root 86-105 / scripts 176-183: raw json, snapshot json and csv.
PipeWriteOutputs ==
    /\ v23.pc = "write"
    /\ v23' = [v23 EXCEPT !.pc = "stats",
                          !.raw_file = Rows(v23.kept),
                          !.snap_file = Rows(v23.kept),
                          !.csv_file = [kind |-> "csv", header |-> cols, rows |-> v23.kept]]
    /\ PipeUnchanged

\* root 107-108 / scripts 184-185.
PipeWriteStats ==
    /\ v23.pc = "stats"
    /\ LET stats == [v23.stats EXCEPT !.entries_seen = Len(v23.strict),
                                      !.entries_kept = Len(v23.kept)]
       IN  v23' = [v23 EXCEPT !.pc = "upload", !.stats = stats, !.stats_file = stats]
    /\ PipeUnchanged

\* root 110-114 / scripts 186-190: the uploads, each failure printed and dropped.
PipeUpload ==
    /\ v23.pc = "upload"
    /\ v23' = [v23 EXCEPT !.pc = "decide"]
    /\ PipeUnchanged

\* root 116-118 / scripts 191-193.
PipeExit ==
    /\ v23.pc = "decide"
    /\ v23' = [v23 EXCEPT !.pc = "done",
                          !.exit_code = Some(exit_status(v23_in.ci, v23.stats))]
    /\ PipeUnchanged

\* A statement inside the try raises an Exception.
PipeExcept ==
    /\ v23.pc \in TrySteps
    /\ \E msg \in Messages : v23' = except_handler(v23, msg)
    /\ PipeUnchanged

NextPipe ==
    \/ PipeConfig
    \/ PipeGather
    \/ PipeFilter
    \/ PipeEnrich
    \/ PipeWriteOutputs
    \/ PipeWriteStats
    \/ PipeUpload
    \/ PipeExit
    \/ PipeExcept

SpecPipe == InitPipe /\ [][NextPipe]_vars

\* C21: a run that raised has written the stats file with last_error set to the
\* message it caught (an empty message included) and ends with a non-zero
\* status; a stats file with last_error null is never that of a run that raised.
C21_ErrorRecordedBeforeReraise ==
    /\ v23.pc = "raised" =>
           /\ v23.stats_file.kind = "json"
           /\ v23.err # None
           /\ v23.stats_file.last_error = v23.err
           /\ v23.exit_code = Some(1)
    /\ (v23.stats_file.kind = "json" /\ v23.stats_file.last_error = None) => v23.pc # "raised"

\* C21 witness: the run raised, with an empty message, after it had written its
\* stats with a kept entry.
C21_Witness ==
    /\ v23.pc = "raised"
    /\ v23.err = Some("")
    /\ v23.stats_file.entries_kept > 0

\* C22: a run that raised nothing ends with status 1 exactly when CI is "true"
\* and not (hit_boundary and entries_kept > 0), otherwise with status 0; by the
\* time the status is decided the raw, snapshot, csv and stats files are written,
\* the stats with last_error null.
C22_ExitStatus ==
    /\ v23.pc = "done" =>
           /\ v23.exit_code \in {Some(0), Some(1)}
           /\ v23.exit_code = Some(1) <=>
                  /\ v23_in.ci = "true"
                  /\ ~(v23.stats_file.hit_boundary /\ v23.stats_file.entries_kept > 0)
    /\ v23.pc \in {"decide", "done"} =>
           /\ v23.raw_file.kind = "json"
           /\ v23.snap_file.kind = "json"
           /\ v23.csv_file.kind = "csv"
           /\ v23.stats_file = v23.stats
           /\ v23.stats_file.last_error = None
    /\ v23.pc \notin {"done", "raised"} <=> v23.exit_code = None

\* C22 witness: under CI the boundary was hit but every entry was banned, and the
\* run ended with status 1 after writing its files.
C22_Witness ==
    /\ v23.pc = "done"
    /\ v23_in.ci = "true"
    /\ v23.stats_file.hit_boundary
    /\ v23.stats_file.entries_kept = 0
    /\ v23.exit_code = Some(1)

\* ------------------------------------------------------------ _time_window_collect
\* The 'html' and 'atom' collectors (lines 26-39 and 40-53, alike but for the
\* fetch and the parser).  An entry's 'updated' is an empty string (kind "none"),
\* a string parse_edgar_datetime_et reads as the ET minute t (kind "time"), or
\* one it rejects (kind "bad").
MaxServed == 2
collect_max_pages == 2

Upd(t) == [kind |-> "time", t |-> t]
NoUpd == [kind |-> "none", t |-> 0]
BadUpd == [kind |-> "bad", t |-> 0]
CEntry(id, updated) == [id |-> id, updated |-> updated]

\* The sample window is [0, 10) and the sample pages are:
CollWindow == [start |-> Et(0), end |-> Et(10)]
CollPages ==
    { <<CEntry("a1", Upd(15)), CEntry("a2", Upd(5))>>,
      <<CEntry("b1", Upd(5)), CEntry("b2", Upd(3))>>,
      <<CEntry("c1", NoUpd), CEntry("c2", Upd(5))>>,
      <<CEntry("d1", Upd(12)), CEntry("d2", NoUpd), CEntry("d3", Upd(4))>>,
      <<CEntry("e1", Upd(2)), CEntry("e2", Upd(-5))>>,
      <<CEntry("f1", Upd(-5)), CEntry("f2", Upd(-7))>>,
      <<CEntry("g1", Upd(5)), CEntry("g2", BadUpd)>>,
      <<CEntry("h1", NoUpd)>> }
\* What a fetch meets: a page, or an error (fetch_html_page / fetch_atom_page
\* raises).
FetchError == [err |-> TRUE, entries |-> <<>>]
Page(entries) == [err |-> FALSE, entries |-> entries]
Served == UNION {[1..n -> {Page(pg) : pg \in CollPages} \cup {FetchError}] : n \in 0..MaxServed}

\* The page fetched at the given count of pages: those served, then empty ones.
CollFetch(served, pages) == IF pages < Len(served) THEN served[pages + 1] ELSE Page(<<>>)

\* Line 33 / 47: the parsed 'updated' of the entries that have one, in order.
Dts(page_entries) ==
    LET having == SelectSeq(page_entries, LAMBDA e : e.updated.kind # "none")
    IN  [i \in 1..Len(having) |-> having[i].updated]

RECURSIVE ZipWithin(_, _, _, _)
\* Lines 36-37 / 50-51: zip(page_entries, dts) pairs the k-th entry with the k-th
\* parsed time, as far as the shorter list goes.
ZipWithin(page_entries, dts, k, win) ==
    IF k > Len(page_entries) \/ k > Len(dts) THEN <<>>
    ELSE (IF _within(Et(dts[k].t), win.start, win.end) THEN <<page_entries[k]>> ELSE <<>>)
         \o ZipWithin(page_entries, dts, k + 1, win)

SeqMax(ts) == CHOOSE i \in 1..Len(ts) : \A j \in 1..Len(ts) : ts[j].t <= ts[i].t

RECURSIVE CollectLoop(_, _, _, _)
\* The while loop of lines 28-39 / 42-53; _parse raises ValueError on a string
\* it rejects.
CollectLoop(served, win, entries, pages) ==
    LET got == CollFetch(served, pages)
        page_entries == got.entries
        dts == Dts(page_entries)
        page_max == dts[SeqMax(dts)].t
        more == entries \o ZipWithin(page_entries, dts, 1, win)
        done(es, n) == [entries |-> es, pages |-> n, raised |-> FALSE]
    IN  IF pages >= collect_max_pages THEN done(entries, pages)
        ELSE IF got.err THEN done(entries, pages)
        ELSE IF page_entries = <<>> THEN done(entries, pages)
        ELSE IF \E i \in 1..Len(dts) : dts[i].kind = "bad"
             THEN [done(entries, pages) EXCEPT !.raised = TRUE]
        ELSE IF dts = <<>> THEN done(entries, pages)
        ELSE IF page_max < win.start.wall THEN done(more, pages + 1)
        ELSE CollectLoop(served, win, more, pages + 1)

\* Lines 54-56: an exception of the loop is printed and dropped; the entries
\* collected so far, the page count and the kind are returned.
_time_window_collect(kind, served, win) ==
    LET r == CollectLoop(served, win, <<>>, 0)
    IN  [entries |-> r.entries, pages |-> r.pages, kind |-> kind, raised |-> FALSE]

InitCollect ==
    /\ RunIdle /\ BanIdle /\ ScoreIdle /\ ClockIdle /\ FormIdle /\ PipeIdle
    /\ coll_in \in [kind : {"html", "atom"}, served : Served, win : {CollWindow}]
    /\ coll_out = None

Collect ==
    /\ coll_out = None
    /\ coll_out' = Some(_time_window_collect(coll_in.kind, coll_in.served, coll_in.win))
    /\ UNCHANGED <<run, banv, scorev, clockv, formv, pipev, coll_in>>

NextCollect == Collect

SpecCollect == InitCollect /\ [][NextCollect]_vars

\* The entries of the pages fetched before the collector stopped.
FetchedEntries ==
    UNION {{coll_in.served[i].entries[k] : k \in 1..Len(coll_in.served[i].entries)} :
              i \in 1..Len(coll_in.served)}

\* C30: every entry the collector returns has an 'updated' of its own that lies
\* in [start, end), whatever entries of its page lack one; the collector raises
\* nothing, fetches at most max_pages pages and returns what it has collected.
C30_CollectedInWindow ==
    coll_out # None =>
        LET r == coll_out[1]
        IN  /\ ~r.raised
            /\ r.pages <= collect_max_pages
            /\ \A i \in 1..Len(r.entries) :
                   /\ r.entries[i] \in FetchedEntries
                   /\ r.entries[i].updated.kind = "time"
                   /\ _within(Et(r.entries[i].updated.t), coll_in.win.start, coll_in.win.end)

=============================================================================
